---------------------------- MODULE Spec2Model ----------------------------
(***************************************************************************)
(* A model of WhatsAppChatAnalyzer.parse_chat (backend/app/analyzer.py).   *)
(*                                                                         *)
(* Text is modelled at the level of characters: a string is a sequence of  *)
(* one-character strings.  The seven dialect patterns are written as       *)
(* regular-expression element lists and matched by a small backtracking    *)
(* matcher (ReMatch), the strptime formats by a matcher built from the     *)
(* directive table the timestamp parser uses (Strptime).  parse_chat runs  *)
(* as a state machine: one step per iteration of its line loop, followed   *)
(* by the content filter and the feature derivation.                       *)
(***************************************************************************)
EXTENDS Integers, Sequences, FiniteSets, TLC

(***************************************************************************)
(* Characters                                                              *)
(***************************************************************************)
\* U+200E LEFT-TO-RIGHT MARK, the invisible marker of pattern 2 / line 137.
LRM == "<U+200E>"
\* U+202F NARROW NO-BREAK SPACE, replaced by ' ' on line 41.
NNBSP == "<U+202F>"

Digits == <<"0","1","2","3","4","5","6","7","8","9">>
DigitSet == {Digits[i] : i \in 1..10}
DigitValue == [c \in DigitSet |-> (CHOOSE i \in 1..10 : Digits[i] = c) - 1]
IsDigit(c) == c \in DigitSet
DigitVal(c) == DigitValue[c]

LowerLetters == <<"a","b","c","d","e","f","g","h","i","j","k","l","m",
                  "n","o","p","q","r","s","t","u","v","w","x","y","z">>
UpperLetters == <<"A","B","C","D","E","F","G","H","I","J","K","L","M",
                  "N","O","P","Q","R","S","T","U","V","W","X","Y","Z">>

LowerSet == {LowerLetters[i] : i \in 1..26}
UpperSet == {UpperLetters[i] : i \in 1..26}
ToUpper == [c \in LowerSet |-> UpperLetters[CHOOSE i \in 1..26 : LowerLetters[i] = c]]
ToLower == [c \in UpperSet |-> LowerLetters[CHOOSE i \in 1..26 : UpperLetters[i] = c]]

\* str.upper() / str.lower() on one character.
UpperChar(c) == IF c \in LowerSet THEN ToUpper[c] ELSE c
LowerChar(c) == IF c \in UpperSet THEN ToLower[c] ELSE c
Upper(s) == [i \in 1..Len(s) |-> UpperChar(s[i])]
Lower(s) == [i \in 1..Len(s) |-> LowerChar(s[i])]

\* str.isspace() on the characters of the model's alphabet.
SpaceSet == {" ", "\n", "\r", "\t", NNBSP}
IsSpace(c) == c \in SpaceSet

\* The character at position pos, or "" past the end of the string.
CharAt(s, pos) == IF pos >= 1 /\ pos <= Len(s) THEN s[pos] ELSE ""

\* s[pos:].startswith(t)
HasAt(s, pos, t) ==
    /\ pos + Len(t) - 1 <= Len(s)
    /\ \A i \in 1..Len(t) : s[pos + i - 1] = t[i]

\* s.startswith(t)
StartsWith(s, t) == HasAt(s, 1, t)

\* t in s
Contains(s, t) == \E pos \in 1..(Len(s) - Len(t) + 1) : HasAt(s, pos, t)

\* s.strip()
LStripFrom(s) ==
    IF \A i \in 1..Len(s) : IsSpace(s[i]) THEN Len(s) + 1
    ELSE CHOOSE i \in 1..Len(s) :
            ~IsSpace(s[i]) /\ \A j \in 1..(i-1) : IsSpace(s[j])
RStripTo(s) ==
    IF \A i \in 1..Len(s) : IsSpace(s[i]) THEN 0
    ELSE CHOOSE i \in 1..Len(s) :
            ~IsSpace(s[i]) /\ \A j \in (i+1)..Len(s) : IsSpace(s[j])
Strip(s) == SubSeq(s, LStripFrom(s), RStripTo(s))

\* s.replace(a, b) for single characters a and b.
ReplaceChar(s, a, b) == [i \in 1..Len(s) |-> IF s[i] = a THEN b ELSE s[i]]

\* s.split(sep) for a single character sep: the pieces between the
\* occurrences of sep, always at least one piece.
Split(s, sep) ==
    LET at == {i \in 1..Len(s) : s[i] = sep}
        n == Cardinality(at)
        cut(k) == IF k = 0 THEN 0
                  ELSE IF k = n + 1 THEN Len(s) + 1
                  ELSE CHOOSE p \in at : Cardinality({q \in at : q < p}) = k - 1
    IN [k \in 1..(n + 1) |-> SubSeq(s, cut(k - 1) + 1, cut(k) - 1)]

\* sep.join(pieces)
RECURSIVE Join(_, _)
Join(pieces, sep) ==
    IF Len(pieces) = 0 THEN <<>>
    ELSE IF Len(pieces) = 1 THEN pieces[1]
    ELSE pieces[1] \o sep \o Join(Tail(pieces), sep)

(***************************************************************************)
(* Regular expressions: re.match(pattern, line)                            *)
(***************************************************************************)
\* Pattern elements: a literal string, a bounded repetition of a character
\* class, a one-or-more repetition, and the parentheses of a capture group.
Lit(s) == [t |-> "lit", s |-> s]
Rep(cls, lo, hi) == [t |-> "rep", cls |-> cls, lo |-> lo, hi |-> hi]
Plus(cls) == [t |-> "plus", cls |-> cls]
GOpen == [t |-> "open"]
GClose == [t |-> "close"]

\* Character classes: \d, [AP], [^:], '.', the single character U+200E, \s.
InClass(cls, c) ==
    CASE cls = "digit"    -> IsDigit(c)
      [] cls = "AP"       -> c \in {"A", "P"}
      [] cls = "notcolon" -> c # ":" /\ c # ""
      [] cls = "dot"      -> c # "\n" /\ c # ""
      [] cls = "lrm"      -> c = LRM
      [] cls = "space"    -> IsSpace(c)

\* The longest run of class characters from pos, at most max long.
RECURSIVE RunLen(_, _, _, _)
RunLen(cls, s, pos, max) ==
    IF max = 0 \/ pos > Len(s) \/ ~InClass(cls, s[pos]) THEN 0
    ELSE 1 + RunLen(cls, s, pos + 1, max - 1)

NoMatch == [ok |-> FALSE, caps |-> <<>>]

\* Backtracking match of pat[k..] against s[pos..]; caps collects the
\* positions of the group parentheses passed so far.  A repetition is
\* greedy: the longest run first, then shorter ones.
RECURSIVE MatchFrom(_, _, _, _, _), MatchRep(_, _, _, _, _, _, _)
MatchFrom(pat, k, s, pos, caps) ==
    IF k > Len(pat) THEN [ok |-> TRUE, caps |-> caps]
    ELSE LET el == pat[k] IN
         CASE el.t \in {"open", "close"} ->
                  MatchFrom(pat, k + 1, s, pos, Append(caps, pos))
           [] el.t = "lit" ->
                  IF HasAt(s, pos, el.s)
                  THEN MatchFrom(pat, k + 1, s, pos + Len(el.s), caps)
                  ELSE NoMatch
           [] el.t = "rep" ->
                  MatchRep(pat, k, s, pos, caps,
                           RunLen(el.cls, s, pos, el.hi), el.lo)
           [] el.t = "plus" ->
                  MatchRep(pat, k, s, pos, caps,
                           RunLen(el.cls, s, pos, Len(s)), 1)
MatchRep(pat, k, s, pos, caps, n, lo) ==
    IF n < lo THEN NoMatch
    ELSE LET r == MatchFrom(pat, k + 1, s, pos + n, caps) IN
         IF r.ok THEN r ELSE MatchRep(pat, k, s, pos, caps, n - 1, lo)

\* re.match(pattern, line): anchored at the start, not at the end.
ReMatch(pattern, line) == MatchFrom(pattern, 1, line, 1, <<>>)

\* match.groups() of a four-group pattern.
Groups(line, m) ==
    [i \in 1..4 |-> SubSeq(line, m.caps[2*i - 1], m.caps[2*i] - 1)]

(***************************************************************************)
(* The dialect patterns and their date formats (lines 46-78)               *)
(***************************************************************************)
D(lo, hi) == Rep("digit", lo, hi)

\* ([^:]+): (.+)   -- the tail shared by all seven patterns
SenderMessage ==
    <<GOpen, Plus("notcolon"), GClose, Lit(<<":", " ">>),
      GOpen, Plus("dot"), GClose>>

\* \[(\d{1,2}/\d{1,2}/\d{2,4}), (\d{1,2}:\d{2}:\d{2} [AP]M)\] ([^:]+): (.+)
Pattern1 ==
    <<Lit(<<"[">>),
      GOpen, D(1,2), Lit(<<"/">>), D(1,2), Lit(<<"/">>), D(2,4), GClose,
      Lit(<<",", " ">>),
      GOpen, D(1,2), Lit(<<":">>), D(2,2), Lit(<<":">>), D(2,2), Lit(<<" ">>),
             Rep("AP", 1, 1), Lit(<<"M">>), GClose,
      Lit(<<"]", " ">>)>> \o SenderMessage

\* the same with an optional leading U+200E
Pattern2 == <<Rep("lrm", 0, 1)>> \o Pattern1

\* (\d{1,2}/\d{1,2}/\d{4}), (\d{1,2}:\d{2}) - ([^:]+): (.+)
Pattern3 ==
    <<GOpen, D(1,2), Lit(<<"/">>), D(1,2), Lit(<<"/">>), D(4,4), GClose,
      Lit(<<",", " ">>),
      GOpen, D(1,2), Lit(<<":">>), D(2,2), GClose,
      Lit(<<" ", "-", " ">>)>> \o SenderMessage

\* (\d{1,2}/\d{1,2}/\d{2}), (\d{1,2}:\d{2}) - ([^:]+): (.+)
Pattern4 ==
    <<GOpen, D(1,2), Lit(<<"/">>), D(1,2), Lit(<<"/">>), D(2,2), GClose,
      Lit(<<",", " ">>),
      GOpen, D(1,2), Lit(<<":">>), D(2,2), GClose,
      Lit(<<" ", "-", " ">>)>> \o SenderMessage

\* (\d{1,2}/\d{1,2}/\d{2,4}), (\d{1,2}:\d{2} [AP]M) - ([^:]+): (.+)
Pattern5 ==
    <<GOpen, D(1,2), Lit(<<"/">>), D(1,2), Lit(<<"/">>), D(2,4), GClose,
      Lit(<<",", " ">>),
      GOpen, D(1,2), Lit(<<":">>), D(2,2), Lit(<<" ">>),
             Rep("AP", 1, 1), Lit(<<"M">>), GClose,
      Lit(<<" ", "-", " ">>)>> \o SenderMessage

\* (\d{4}-\d{2}-\d{2}) (\d{2}:\d{2}:\d{2}) - ([^:]+): (.+)
Pattern6 ==
    <<GOpen, D(4,4), Lit(<<"-">>), D(2,2), Lit(<<"-">>), D(2,2), GClose,
      Lit(<<" ">>),
      GOpen, D(2,2), Lit(<<":">>), D(2,2), Lit(<<":">>), D(2,2), GClose,
      Lit(<<" ", "-", " ">>)>> \o SenderMessage

\* (\d{1,2}\.\d{1,2}\.\d{2,4}), (\d{1,2}:\d{2}) - ([^:]+): (.+)
Pattern7 ==
    <<GOpen, D(1,2), Lit(<<".">>), D(1,2), Lit(<<".">>), D(2,4), GClose,
      Lit(<<",", " ">>),
      GOpen, D(1,2), Lit(<<":">>), D(2,2), GClose,
      Lit(<<" ", "-", " ">>)>> \o SenderMessage

\* The list `patterns`, in its order of declaration.
patterns ==
    <<Pattern1, Pattern2, Pattern3, Pattern4, Pattern5, Pattern6, Pattern7>>

NumPatterns == Len(patterns)

\* date_formats with the bracketed dialects read day first.
date_formatsDayFirst ==
    << <<"%d","/","%m","/","%y"," ","%I",":","%M",":","%S"," ","%p">>,
       <<"%d","/","%m","/","%y"," ","%I",":","%M",":","%S"," ","%p">>,
       <<"%d","/","%m","/","%Y"," ","%H",":","%M">>,
       <<"%d","/","%m","/","%y"," ","%H",":","%M">>,
       <<"%m","/","%d","/","%y"," ","%I",":","%M"," ","%p">>,
       <<"%Y","-","%m","-","%d"," ","%H",":","%M",":","%S">>,
       <<"%d",".","%m",".","%y"," ","%H",":","%M">> >>

\* The list `date_formats`: a format is a sequence of directives ("%m")
\* and literal characters.
date_formats ==
    << <<"%m","/","%d","/","%y"," ","%I",":","%M",":","%S"," ","%p">>,
       <<"%m","/","%d","/","%y"," ","%I",":","%M",":","%S"," ","%p">>,
       <<"%d","/","%m","/","%Y"," ","%H",":","%M">>,
       <<"%d","/","%m","/","%y"," ","%H",":","%M">>,
       <<"%m","/","%d","/","%y"," ","%I",":","%M"," ","%p">>,
       <<"%Y","-","%m","-","%d"," ","%H",":","%M",":","%S">>,
       <<"%d",".","%m",".","%y"," ","%H",":","%M">> >>

\* alt_format with the fallbacks of the bracketed dialects only.
alt_formatBracketsOnly(i) ==
    CASE i \in {1, 2} ->
             <<"%m","/","%d","/","%Y"," ","%I",":","%M",":","%S"," ","%p">>
      [] OTHER -> <<>>

\* The fallback format chosen on lines 113-120, <<>> where there is none
\* (the `else: continue` of line 120).  Indices are 1-based here: the
\* code's i in [0, 1], i == 3 and i == 6 are dialects 1, 2, 4 and 7.
alt_format(i) ==
    CASE i \in {1, 2} ->
             <<"%m","/","%d","/","%Y"," ","%I",":","%M",":","%S"," ","%p">>
      [] i = 4 -> <<"%d","/","%m","/","%Y"," ","%H",":","%M">>
      [] i = 7 -> <<"%d",".","%m",".","%Y"," ","%H",":","%M">>
      [] OTHER -> <<>>

(***************************************************************************)
(* pd.to_datetime(datetime_str, format=fmt) (lines 100 and 122)            *)
(*                                                                         *)
(* The parser turns the format into a regular expression, one alternation  *)
(* per directive, matches it at the start of the string, rejects the       *)
(* string when characters remain, and then builds the calendar date,       *)
(* which rejects a day the month does not have.                            *)
(***************************************************************************)
Directives == {"%d", "%m", "%y", "%Y", "%H", "%I", "%M", "%S", "%p"}

\* c is a digit between lo and hi.
DigitIn(c, lo, hi) == IsDigit(c) /\ DigitVal(c) >= lo /\ DigitVal(c) <= hi

IfSeq(cond, n) == IF cond THEN <<n>> ELSE <<>>

\* The alternatives of a directive that match at pos, as the lengths they
\* consume, in the order the alternation tries them:
\*   %d  3[0-1]|[1-2]\d|0[1-9]|[1-9]| [1-9]      %y  \d\d
\*   %m  1[0-2]|0[1-9]|[1-9]                     %Y  \d\d\d\d
\*   %H  2[0-3]|[0-1]\d|\d                       %M  [0-5]\d|\d
\*   %I  1[0-2]|0[1-9]|[1-9]                     %S  6[0-1]|[0-5]\d|\d
\*   %p  am|pm, ignoring case
DirAlts(d, s, pos) ==
    LET c1 == CharAt(s, pos)
        c2 == CharAt(s, pos + 1)
        c3 == CharAt(s, pos + 2)
        c4 == CharAt(s, pos + 3)
    IN CASE d = "%d" ->
               IfSeq(c1 = "3" /\ DigitIn(c2, 0, 1), 2)
               \o IfSeq(DigitIn(c1, 1, 2) /\ IsDigit(c2), 2)
               \o IfSeq(c1 = "0" /\ DigitIn(c2, 1, 9), 2)
               \o IfSeq(DigitIn(c1, 1, 9), 1)
               \o IfSeq(c1 = " " /\ DigitIn(c2, 1, 9), 2)
         [] d \in {"%m", "%I"} ->
               IfSeq(c1 = "1" /\ DigitIn(c2, 0, 2), 2)
               \o IfSeq(c1 = "0" /\ DigitIn(c2, 1, 9), 2)
               \o IfSeq(DigitIn(c1, 1, 9), 1)
         [] d = "%H" ->
               IfSeq(c1 = "2" /\ DigitIn(c2, 0, 3), 2)
               \o IfSeq(DigitIn(c1, 0, 1) /\ IsDigit(c2), 2)
               \o IfSeq(IsDigit(c1), 1)
         [] d = "%M" ->
               IfSeq(DigitIn(c1, 0, 5) /\ IsDigit(c2), 2)
               \o IfSeq(IsDigit(c1), 1)
         [] d = "%S" ->
               IfSeq(c1 = "6" /\ DigitIn(c2, 0, 1), 2)
               \o IfSeq(DigitIn(c1, 0, 5) /\ IsDigit(c2), 2)
               \o IfSeq(IsDigit(c1), 1)
         [] d = "%y" -> IfSeq(IsDigit(c1) /\ IsDigit(c2), 2)
         [] d = "%Y" ->
               IfSeq(IsDigit(c1) /\ IsDigit(c2) /\ IsDigit(c3) /\ IsDigit(c4), 4)
         [] d = "%p" ->
               IfSeq(UpperChar(c1) \in {"A", "P"} /\ UpperChar(c2) = "M", 2)

NoFields == [d \in Directives |-> <<>>]
FormatFail == [ok |-> FALSE, end |-> 0, found |-> NoFields]

\* The first way the format's expression matches s from pos; found maps each
\* directive to the text it matched.  White space in a format stands for
\* \s+ : at least one white-space character.
RECURSIVE FormatFrom(_, _, _, _, _), FormatAlts(_, _, _, _, _, _, _),
          FormatSpaces(_, _, _, _, _, _)
FormatFrom(fmt, k, s, pos, found) ==
    IF k > Len(fmt) THEN [ok |-> TRUE, end |-> pos, found |-> found]
    ELSE LET f == fmt[k] IN
         IF f \in Directives
         THEN FormatAlts(fmt, k, s, pos, found, DirAlts(f, s, pos), 1)
         ELSE IF IsSpace(f)
         THEN FormatSpaces(fmt, k, s, pos, found,
                           RunLen("space", s, pos, Len(s)))
         ELSE IF CharAt(s, pos) = f
         THEN FormatFrom(fmt, k + 1, s, pos + 1, found)
         ELSE FormatFail
FormatAlts(fmt, k, s, pos, found, alts, a) ==
    IF a > Len(alts) THEN FormatFail
    ELSE LET n == alts[a]
             r == FormatFrom(fmt, k + 1, s, pos + n,
                     [found EXCEPT ![fmt[k]] = SubSeq(s, pos, pos + n - 1)])
         IN IF r.ok THEN r ELSE FormatAlts(fmt, k, s, pos, found, alts, a + 1)
FormatSpaces(fmt, k, s, pos, found, n) ==
    IF n < 1 THEN FormatFail
    ELSE LET r == FormatFrom(fmt, k + 1, s, pos + n, found) IN
         IF r.ok THEN r ELSE FormatSpaces(fmt, k, s, pos, found, n - 1)

\* int(text) of a matched directive (%d may carry a leading space).
RECURSIVE IntOf(_)
IntOf(txt) ==
    IF Len(txt) = 0 THEN 0
    ELSE IF txt[Len(txt)] = " " THEN 0
    ELSE 10 * IntOf(SubSeq(txt, 1, Len(txt) - 1)) + DigitVal(txt[Len(txt)])

IsLeap(y) == (y % 4 = 0 /\ y % 100 # 0) \/ y % 400 = 0
DaysInMonth(y, m) ==
    CASE m \in {1, 3, 5, 7, 8, 10, 12} -> 31
      [] m \in {4, 6, 9, 11} -> 30
      [] m = 2 -> IF IsLeap(y) THEN 29 ELSE 28

\* The fields of the parsed time: %y is 20yy up to 68 and 19yy from 69, a
\* 12-hour clock is turned by %p, and what a format does not name keeps
\* the defaults 1900-01-01 00:00:00.
FieldsOf(found) ==
    LET has(d) == found[d] # <<>>
        yy == IntOf(found["%y"])
        hh == IntOf(found["%I"])
        pm == has("%p") /\ UpperChar(found["%p"][1]) = "P"
    IN [year   |-> IF has("%y") THEN (IF yy <= 68 THEN 2000 + yy ELSE 1900 + yy)
                   ELSE IF has("%Y") THEN IntOf(found["%Y"]) ELSE 1900,
        month  |-> IF has("%m") THEN IntOf(found["%m"]) ELSE 1,
        day    |-> IF has("%d") THEN IntOf(found["%d"]) ELSE 1,
        hour   |-> IF has("%H") THEN IntOf(found["%H"])
                   ELSE IF ~has("%I") THEN 0
                   ELSE IF pm THEN (IF hh # 12 THEN hh + 12 ELSE hh)
                   ELSE (IF hh = 12 THEN 0 ELSE hh),
        minute |-> IF has("%M") THEN IntOf(found["%M"]) ELSE 0,
        second |-> IF has("%S") THEN IntOf(found["%S"]) ELSE 0]

NoTime == [year |-> 0, month |-> 0, day |-> 0,
           hour |-> 0, minute |-> 0, second |-> 0]

\* pd.to_datetime(s, format=fmt): [ok |-> FALSE] stands for the exception.
\* A second of 60 or 61 passes the expression but is no time of day; the
\* inputs of this model carry no such second.
to_datetime(s, fmt) ==
    LET r == FormatFrom(fmt, 1, s, 1, NoFields)
        t == FieldsOf(r.found)
    IN IF /\ r.ok
          /\ r.end = Len(s) + 1
          /\ t.year >= 1
          /\ t.day <= DaysInMonth(t.year, t.month)
          /\ t.second <= 59
       THEN [ok |-> TRUE, dt |-> t]
       ELSE [ok |-> FALSE, dt |-> NoTime]

(***************************************************************************)
(* The content filter's list (lines 146-152)                               *)
(***************************************************************************)
W_omitted == <<"o","m","i","t","t","e","d">>
W_deleted == <<"d","e","l","e","t","e","d">>
W_missed == <<"m","i","s","s","e","d">>
W_voice == <<"v","o","i","c","e">>
W_video == <<"v","i","d","e","o">>
W_call == <<"c","a","l","l">>
W_end_to_end == <<"e","n","d","-","t","o","-","e","n","d">>
W_encrypted == <<"e","n","c","r","y","p","t","e","d">>
W_you == <<"y","o","u">>
W_this == <<"t","h","i","s">>
W_message == <<"m","e","s","s","a","g","e">>
W_was == <<"w","a","s">>
W_messages == <<"m","e","s","s","a","g","e","s">>
W_and == <<"a","n","d">>
W_calls == <<"c","a","l","l","s">>
W_are == <<"a","r","e">>
W_image == <<"i","m","a","g","e">>
W_audio == <<"a","u","d","i","o">>
W_document == <<"d","o","c","u","m","e","n","t">>
W_contact == <<"c","o","n","t","a","c","t">>
W_location == <<"l","o","c","a","t","i","o","n">>
W_sticker == <<"s","t","i","c","k","e","r">>
W_gif == <<"g","i","f">>

\* Words joined by single spaces.
Phrase(ws) == Join(ws, <<" ">>)

system_messages ==
    << W_omitted,
       W_deleted,
       Phrase(<<W_missed, W_voice, W_call>>),
       Phrase(<<W_missed, W_video, W_call>>),
       Phrase(<<W_end_to_end, W_encrypted>>),
       Phrase(<<W_you, W_deleted, W_this, W_message>>),
       Phrase(<<W_this, W_message, W_was, W_deleted>>),
       Phrase(<<W_messages, W_and, W_calls, W_are, W_end_to_end, W_encrypted>>),
       Phrase(<<W_image, W_omitted>>),
       Phrase(<<W_video, W_omitted>>),
       Phrase(<<W_audio, W_omitted>>),
       Phrase(<<W_document, W_omitted>>),
       Phrase(<<W_contact, W_omitted>>),
       Phrase(<<W_location, W_omitted>>),
       Phrase(<<W_sticker, W_omitted>>),
       Phrase(<<W_gif, W_omitted>>) >>

(***************************************************************************)
(* parse_chat (lines 39-185)                                               *)
(***************************************************************************)
VARIABLES
    raw_text,   \* the argument of parse_chat
    pc,         \* where the call is: "start", "loop", "raised", "returned"
    lines,      \* the list `lines` of line 42
    cur,        \* the index in `lines` of the line the loop takes next
    data,       \* the list `data`: dicts DateTime / person / message
    df,         \* the rows of the data frame the call returns
    raised,     \* the message of the ValueError raised, <<>> while none is
    origin,     \* history: origin[k] is the index of the line that appended data[k]
    trace,      \* history: what the pattern loop did for the last line taken
    outcome,    \* history: the branch the last iteration of the line loop took
    index,      \* history: the index of df before reset_index (rows of data kept)
    meant,      \* history: the time the writer of a generated line meant
    written,    \* history: the layout and the parts a generated line was written with
    columns,    \* the columns lines 168-176 add to df, row by row
    past,       \* history: the calls that have ended, oldest first
    chat_sessions,  \* the dict `chat_sessions` of routes.py
    response    \* the response to the last request handled

vars ==
    <<raw_text, pc, lines, cur, data, df, raised, origin, trace, outcome,
      index, meant, written, columns, past, chat_sessions, response>>

\* The two ValueError messages of lines 141 and 165.
EmptyChat == "No valid chat messages found. Please check the chat format."
NoMessagesAfterFiltering == "No valid messages found after filtering system messages."
NoError == ""

NoRow == [DateTime |-> NoTime, person |-> <<>>, message |-> <<>>]

\* TryPatterns with `break` in place of the `continue` of lines 120 and
\* 131: the loop ends at the first pattern that matches.
TryPatternsBreak(line, i) ==
    LET firsts == {j \in i..NumPatterns : ReMatch(patterns[j], line).ok}
        stop == IF firsts = {} THEN NumPatterns
                ELSE CHOOSE j \in firsts : \A h \in firsts : j <= h
        match == ReMatch(patterns[stop], line)
        groups == Groups(line, match)
        datetime_str == groups[1] \o <<" ">> \o groups[2]
        row(dt) == [DateTime |-> dt,
                    person   |-> Strip(groups[3]),
                    message  |-> Strip(groups[4])]
        primary == to_datetime(datetime_str, date_formats[stop])
        fallback == to_datetime(datetime_str, alt_format(stop))
        misses == [j \in 1..(stop - i) |-> [op |-> "match", i |-> i + j - 1]]
        ev(op) == [op |-> op, i |-> stop]
    IN  IF i > NumPatterns
        THEN [parsed |-> FALSE, row |-> NoRow, trace |-> <<>>]
        ELSE IF firsts = {}
        THEN [parsed |-> FALSE, row |-> NoRow,
              trace |-> misses \o <<ev("match")>>]
        ELSE IF primary.ok
        THEN [parsed |-> TRUE, row |-> row(primary.dt),
              trace |-> misses \o <<ev("match"), ev("primary")>>]
        ELSE IF alt_format(stop) = <<>>
        THEN [parsed |-> FALSE, row |-> NoRow,
              trace |-> misses \o <<ev("match"), ev("primary")>>]
        ELSE [parsed |-> fallback.ok,
              row |-> IF fallback.ok THEN row(fallback.dt) ELSE NoRow,
              trace |-> misses \o <<ev("match"), ev("primary"), ev("alt")>>]

\* The pattern loop of lines 85-131 from pattern i on.  `rest` is the
\* `continue` of lines 120 and 131: the loop goes on with the next pattern.
\* trace lists the calls made: re.match, the primary to_datetime and the
\* fallback to_datetime, each with the index of its pattern.
RECURSIVE TryPatterns(_, _)
TryPatterns(line, i) ==
    IF i > NumPatterns
    THEN [parsed |-> FALSE, row |-> NoRow, trace |-> <<>>]
    ELSE
    LET match == ReMatch(patterns[i], line)
        groups == Groups(line, match)
        datetime_str == groups[1] \o <<" ">> \o groups[2]
        row(dt) == [DateTime |-> dt,
                    person   |-> Strip(groups[3]),
                    message  |-> Strip(groups[4])]
        primary == to_datetime(datetime_str, date_formats[i])
        fallback == to_datetime(datetime_str, alt_format(i))
        rest == TryPatterns(line, i + 1)
        ev(op) == [op |-> op, i |-> i]
    IN  IF ~match.ok
        THEN [rest EXCEPT !.trace = <<ev("match")>> \o @]
        ELSE IF primary.ok
        THEN [parsed |-> TRUE, row |-> row(primary.dt),
              trace |-> <<ev("match"), ev("primary")>>]
        ELSE IF alt_format(i) = <<>>
        THEN [rest EXCEPT !.trace = <<ev("match"), ev("primary")>> \o @]
        ELSE IF fallback.ok
        THEN [parsed |-> TRUE, row |-> row(fallback.dt),
              trace |-> <<ev("match"), ev("primary"), ev("alt")>>]
        ELSE [rest EXCEPT
                !.trace = <<ev("match"), ev("primary"), ev("alt")>> \o @]

\* any(re.match(p, line) for p in patterns)   (line 135)
AnyMatch(line) == \E i \in 1..NumPatterns : ReMatch(patterns[i], line).ok

\* IsContinuation without the test of line 135 that no pattern matches.
IsContinuationAnyLine(d, line) ==
    /\ Len(d) > 0
    /\ Strip(line) # <<>>
    /\ ~StartsWith(line, <<"[">>)
    /\ ~StartsWith(line, <<LRM, "[">>)

\* IsContinuation without the two startswith tests of line 137.
IsContinuationBracketToo(d, line) ==
    /\ Len(d) > 0
    /\ Strip(line) # <<>>
    /\ ~AnyMatch(line)

\* The conditions of lines 135 and 137 under which an unparsed line is
\* joined to the last record.
IsContinuation(d, line) ==
    /\ Len(d) > 0
    /\ Strip(line) # <<>>
    /\ ~AnyMatch(line)
    /\ ~StartsWith(line, <<"[">>)
    /\ ~StartsWith(line, <<LRM, "[">>)

\* JoinToLast with data[0] in place of data[-1].
JoinToFirst(d, line) ==
    [d EXCEPT ![1].message = @ \o <<"\n">> \o Strip(line)]

\* data[-1]["message"] += "\n" + line.strip()   (line 138)
JoinToLast(d, line) ==
    [d EXCEPT ![Len(d)].message = @ \o <<"\n">> \o Strip(line)]

\* ContainsNoCase with case=True.
ContainsCase(message, msg) == Contains(message, msg)

\* str.contains(msg, case=False, regex=False) on one message: both sides
\* are upper-cased and the pattern is sought as a substring.
ContainsNoCase(message, msg) ==
    LET upper_pat == Upper(msg) IN Contains(Upper(message), upper_pat)

\* The mask of lines 155-157: row k stays when its message contains none
\* of the notices.
Mask(d) ==
    [k \in 1..Len(d) |->
        \A j \in 1..Len(system_messages) :
            ~ContainsNoCase(d[k].message, system_messages[j])]

\* The index labels df[mask] keeps, in the order of the frame.
RECURSIVE BoolIndex(_, _)
BoolIndex(mask, k) ==
    IF k > Len(mask) THEN <<>>
    ELSE (IF mask[k] THEN <<k>> ELSE <<>>) \o BoolIndex(mask, k + 1)

\* a is an earlier time than b.
Earlier(a, b) ==
    LET fa == <<a.year, a.month, a.day, a.hour, a.minute, a.second>>
        fb == <<b.year, b.month, b.day, b.hour, b.minute, b.second>>
    IN \E i \in 1..6 : fa[i] < fb[i] /\ \A j \in 1..(i - 1) : fa[j] = fb[j]

\* Filter followed by sort_values("DateTime"): the rows kept, by time.
FilterSortedByTime(d) ==
    LET idx == BoolIndex(Mask(d), 1)
        rank(k) == Cardinality({h \in 1..Len(idx) :
                       \/ Earlier(d[idx[h]].DateTime, d[idx[k]].DateTime)
                       \/ (~Earlier(d[idx[k]].DateTime, d[idx[h]].DateTime)
                           /\ h <= k)})
        sorted == [j \in 1..Len(idx) |->
                       idx[CHOOSE k \in 1..Len(idx) : rank(k) = j]]
    IN [index |-> sorted, rows |-> [j \in 1..Len(idx) |-> d[sorted[j]]]]

\* df[mask].copy() followed by reset_index(drop=True) (lines 159-162):
\* the rows kept, and the index labels they had in `data`.
Filter(d) ==
    LET idx == BoolIndex(Mask(d), 1)
    IN [index |-> idx, rows |-> [j \in 1..Len(idx) |-> d[idx[j]]]]

\* len(message.split()): the runs of characters that are not white space.
WordCount(message) ==
    Cardinality({i \in 1..Len(message) :
                    /\ ~IsSpace(message[i])
                    /\ (i = 1 \/ IsSpace(message[i - 1]))})

\* The columns added on lines 168-176, of which the model keeps the year
\* and the two message statistics: row j of the result belongs to row j of
\* the frame.
AddColumns(rows) ==
    [j \in 1..Len(rows) |->
        [year         |-> rows[j].DateTime.year,
         letter_count |-> Len(rows[j].message),
         word_count   |-> WordCount(rows[j].message)]]

\* Start without line 41: U+202F stays in the text.
StartNoNormalize ==
    /\ pc = "start"
    /\ lines' = Split(Strip(raw_text), "\n")
    /\ data' = <<>>
    /\ cur' = 1
    /\ pc' = "loop"
    /\ UNCHANGED <<columns, past, chat_sessions, response, raw_text, df, raised, origin, trace, outcome, index, meant, written>>

\* Start without line 43: the list `data` is kept from call to call, as an
\* attribute of the analyzer would be.
StartKeepsData ==
    /\ pc = "start"
    /\ lines' = Split(Strip(ReplaceChar(raw_text, NNBSP, " ")), "\n")
    /\ cur' = 1
    /\ pc' = "loop"
    /\ UNCHANGED <<data, columns, past, chat_sessions, response, raw_text, df, raised, origin, trace, outcome, index, meant, written>>

\* Lines 41-43.
Start ==
    /\ pc = "start"
    /\ lines' = Split(Strip(ReplaceChar(raw_text, NNBSP, " ")), "\n")
    /\ data' = <<>>
    /\ cur' = 1
    /\ pc' = "loop"
    /\ UNCHANGED <<columns, past, chat_sessions, response, raw_text, df, raised, origin, trace, outcome, index, meant, written>>

\* What one iteration of the loop of line 80 makes of the list `data`
\* (lines 81-138), as a function of the list and the line.
LineStep(d, line) ==
    LET r == TryPatterns(line, 1)
    IN  IF Strip(line) = <<>> THEN d
        ELSE IF r.parsed THEN Append(d, r.row)
        ELSE IF IsContinuation(d, line) THEN JoinToLast(d, line)
        ELSE d

\* The list `data` after the loop of line 80 over the lines ls.
RECURSIVE DataAfter(_)
DataAfter(ls) ==
    IF ls = <<>> THEN <<>>
    ELSE LineStep(DataAfter(SubSeq(ls, 1, Len(ls) - 1)), ls[Len(ls)])

\* The list `data` of parse_chat(text) when the loop has ended (lines
\* 41-138).
ParseData(text) ==
    DataAfter(Split(Strip(ReplaceChar(text, NNBSP, " ")), "\n"))

\* ProcessLine without the test of line 81, joining every line that starts
\* no record: a blank line adds "\n" to the last record.
ProcessLineBlankJoins ==
    /\ pc = "loop"
    /\ cur <= Len(lines)
    /\ LET line == lines[cur]
           r == TryPatterns(line, 1)
       IN  IF r.parsed
           THEN /\ outcome' = "record"
                /\ trace' = r.trace
                /\ data' = Append(data, r.row)
                /\ origin' = Append(origin, cur)
           ELSE IF IsContinuation(data, line) \/ (Strip(line) = <<>> /\ Len(data) > 0)
           THEN /\ outcome' = IF Strip(line) = <<>> THEN "blank" ELSE "joined"
                /\ trace' = IF Strip(line) = <<>> THEN <<>> ELSE r.trace
                /\ data' = JoinToLast(data, line)
                /\ UNCHANGED origin
           ELSE /\ outcome' = IF Strip(line) = <<>> THEN "blank" ELSE "dropped"
                /\ trace' = IF Strip(line) = <<>> THEN <<>> ELSE r.trace
                /\ UNCHANGED <<data, origin>>
    /\ cur' = cur + 1
    /\ UNCHANGED <<columns, past, chat_sessions, response, raw_text, pc, lines, df, raised, index, meant, written>>

\* ProcessLine without the `data and` of line 135: data[-1] of the empty
\* list raises IndexError for a continuation that comes before any record.
ProcessLineNoDataTest ==
    /\ pc = "loop"
    /\ cur <= Len(lines)
    /\ LET line == lines[cur]
           r == TryPatterns(line, 1)
       IN  IF Strip(line) = <<>>
           THEN /\ outcome' = "blank"
                /\ trace' = <<>>
                /\ UNCHANGED <<data, origin, pc, raised>>
           ELSE IF r.parsed
           THEN /\ outcome' = "record"
                /\ trace' = r.trace
                /\ data' = Append(data, r.row)
                /\ origin' = Append(origin, cur)
                /\ UNCHANGED <<pc, raised>>
           ELSE IF IsContinuationAnyLine(<<NoRow>>, line) /\ ~AnyMatch(line)
           THEN IF data = <<>>
                THEN /\ outcome' = "dropped"
                     /\ trace' = r.trace
                     /\ pc' = "raised"
                     /\ raised' = "list index out of range"
                     /\ UNCHANGED <<data, origin>>
                ELSE /\ outcome' = "joined"
                     /\ trace' = r.trace
                     /\ data' = JoinToLast(data, line)
                     /\ UNCHANGED <<origin, pc, raised>>
           ELSE /\ outcome' = "dropped"
                /\ trace' = r.trace
                /\ UNCHANGED <<data, origin, pc, raised>>
    /\ cur' = cur + 1
    /\ UNCHANGED <<columns, past, chat_sessions, response, raw_text, lines, df, index, meant, written>>

\* One iteration of the loop of line 80 (lines 81-138).  outcome names the
\* branch taken: "blank" (line 81 false), "record" (lines 102 or 123),
\* "joined" (line 138), "dropped" (line 135 or 137 false).
ProcessLine ==
    /\ pc = "loop"
    /\ cur <= Len(lines)
    /\ LET line == lines[cur]
           r == TryPatterns(line, 1)
       IN  IF Strip(line) = <<>>
           THEN /\ outcome' = "blank"
                /\ trace' = <<>>
                /\ UNCHANGED <<data, origin>>
           ELSE IF r.parsed
           THEN /\ outcome' = "record"
                /\ trace' = r.trace
                /\ data' = Append(data, r.row)
                /\ origin' = Append(origin, cur)
           ELSE IF IsContinuation(data, line)
           THEN /\ outcome' = "joined"
                /\ trace' = r.trace
                /\ data' = JoinToLast(data, line)
                /\ UNCHANGED origin
           ELSE /\ outcome' = "dropped"
                /\ trace' = r.trace
                /\ UNCHANGED <<data, origin>>
    /\ cur' = cur + 1
    /\ UNCHANGED <<columns, past, chat_sessions, response, raw_text, pc, lines, df, raised, index, meant, written>>

\* RaiseEmptyChat without lines 140-141: an empty frame is returned.
ReturnEmptyFrame ==
    /\ pc = "loop"
    /\ cur > Len(lines)
    /\ data = <<>>
    /\ df' = <<>>
    /\ pc' = "returned"
    /\ UNCHANGED <<columns, past, chat_sessions, response, raw_text, lines, cur, data, raised, origin, trace, outcome,
                   index, meant, written>>

\* Lines 140-141.
RaiseEmptyChat ==
    /\ pc = "loop"
    /\ cur > Len(lines)
    /\ data = <<>>
    /\ raised' = EmptyChat
    /\ pc' = "raised"
    /\ UNCHANGED <<columns, past, chat_sessions, response, raw_text, lines, cur, data, df, origin, trace, outcome,
                   index, meant, written>>

\* RaiseNoMessages raising the error of line 141 once more.
RaiseNoMessagesSameError ==
    /\ pc = "loop"
    /\ cur > Len(lines)
    /\ data # <<>>
    /\ LET f == Filter(data) IN
        /\ Len(f.rows) = 0
        /\ index' = f.index
    /\ raised' = EmptyChat
    /\ pc' = "raised"
    /\ UNCHANGED <<columns, past, chat_sessions, response, raw_text, lines, cur, data, df, origin, trace, outcome, meant, written>>

\* RaiseNoMessages without lines 164-165: the .dt accessor of line 168
\* raises on the empty frame.
RaiseAttributeError ==
    /\ pc = "loop"
    /\ cur > Len(lines)
    /\ data # <<>>
    /\ LET f == Filter(data) IN
        /\ Len(f.rows) = 0
        /\ index' = f.index
    /\ raised' = "Can only use .dt accessor with datetimelike values"
    /\ pc' = "raised"
    /\ UNCHANGED <<columns, past, chat_sessions, response, raw_text, lines, cur, data, df, origin, trace, outcome, meant, written>>

\* Lines 143-165: the filter leaves no row.
RaiseNoMessages ==
    /\ pc = "loop"
    /\ cur > Len(lines)
    /\ data # <<>>
    /\ LET f == Filter(data) IN
        /\ Len(f.rows) = 0
        /\ index' = f.index
    /\ raised' = NoMessagesAfterFiltering
    /\ pc' = "raised"
    /\ UNCHANGED <<columns, past, chat_sessions, response, raw_text, lines, cur, data, df, origin, trace, outcome, meant, written>>

\* Lines 143-185: the filtered frame is returned.
Return ==
    /\ pc = "loop"
    /\ cur > Len(lines)
    /\ data # <<>>
    /\ LET f == Filter(data) IN
        /\ Len(f.rows) # 0
        /\ index' = f.index
        /\ df' = f.rows
        /\ columns' = AddColumns(f.rows)
    /\ pc' = "returned"
    /\ UNCHANGED <<past, chat_sessions, response, raw_text, lines, cur, data, raised, origin, trace, outcome,
                   meant, written>>

Next ==
    \/ Start
    \/ ProcessLine
    \/ RaiseEmptyChat
    \/ RaiseNoMessages
    \/ Return

(***************************************************************************)
(* routes.py: the session store and its endpoints                          *)
(***************************************************************************)
\* What parse_chat does with the list `data` its loop has built (lines
\* 140-185).
Frame(d) ==
    LET f == Filter(d)
    IN  IF d = <<>>
        THEN [raised |-> EmptyChat, df |-> <<>>, columns |-> <<>>]
        ELSE IF Len(f.rows) = 0
        THEN [raised |-> NoMessagesAfterFiltering, df |-> <<>>, columns |-> <<>>]
        ELSE [raised |-> NoError, df |-> f.rows, columns |-> AddColumns(f.rows)]

\* parse_chat as a function of its argument: the ValueError it raises, or
\* the frame it returns (analyzer.py lines 39-185).
parse_chat(text) == Frame(ParseData(text))

\* str(n) for n >= 0.
RECURSIVE Decimal(_)
Decimal(n) ==
    IF n < 10 THEN <<Digits[n + 1]>>
    ELSE Decimal(n \div 10) \o <<Digits[(n % 10) + 1]>>

\* f"session_{n}"   (line 160)
SessionName(n) == <<"s","e","s","s","i","o","n","_">> \o Decimal(n)

\* s.endswith(t)
EndsWith(s, t) == Len(t) <= Len(s) /\ HasAt(s, Len(s) - Len(t) + 1, t)

\* The dict chat_sessions is the sequence of its items in the order of
\* insertion: [session_id, filename, dataframe, raw_text].  A dataframe
\* is [rows, columns, added, weekday]: the rows parse_chat kept, the
\* columns it derived from them, the names of the columns handlers have
\* added to the frame since, and the dtype of its 'weekday' column
\* ("object" as parse_chat leaves it on line 167, or "category").
Keys(sessions) == [k \in 1..Len(sessions) |-> sessions[k].session_id]

\* session_id in chat_sessions
HasKey(sessions, session_id) ==
    \E k \in 1..Len(sessions) : sessions[k].session_id = session_id

\* chat_sessions[session_id]
Item(sessions, session_id) ==
    sessions[CHOOSE k \in 1..Len(sessions) : sessions[k].session_id = session_id]

\* chat_sessions[session_id] = {...}: an item whose key is there already is
\* replaced where it stands, a new one is added at the end.
SetItem(sessions, item) ==
    IF HasKey(sessions, item.session_id)
    THEN [k \in 1..Len(sessions) |->
             IF sessions[k].session_id = item.session_id THEN item
             ELSE sessions[k]]
    ELSE Append(sessions, item)

\* del chat_sessions[session_id]
DelItem(sessions, session_id) ==
    SelectSeq(sessions, LAMBDA it : it.session_id # session_id)

\* The names bound in the module routes.py when a handler runs: those of
\* the import statements of lines 97-105 and those the module defines.
ModuleNames ==
    {"APIRouter", "UploadFile", "File", "HTTPException", "Query",
     "JSONResponse", "WhatsAppChatAnalyzer", "logging", "pd", "Optional",
     "Dict", "Any", "List", "json", "tempfile", "os", "logger", "router",
     "chat_sessions", "analyzer", "upload_chat_file", "get_chat_summary",
     "get_activity_patterns", "get_content_analysis", "get_timeline_data",
     "get_visualizations", "search_messages", "list_sessions",
     "delete_session", "health_check", "root"}

\* The variables of a call of parse_chat, which no handler of routes.py
\* refers to.
call_vars ==
    <<raw_text, pc, lines, cur, data, df, raised, origin, trace, outcome,
      index, meant, written, columns, past>>

\* The response to a request: `arg` is the file name or the session id the
\* request came with, `content` the JSON body, and an HTTPException is the
\* response with its status code and its detail.
Respond(op, arg, status_code, content) ==
    [op |-> op, arg |-> arg, status_code |-> status_code, content |-> content]

\* Uploaded with the assignment of line 163 ahead of the call of
\* parse_chat: a file that fails to parse leaves a session with no rows.
UploadedStoresBeforeParse(filename, text_content, parsed) ==
    LET session_id == SessionName(Len(chat_sessions) + 1)
    IN  IF ~EndsWith(filename, <<".","t","x","t">>)
        THEN /\ response' = Respond("upload", filename, 400,
                    [detail |-> "Please upload a WhatsApp chat export file (.txt format)"])
             /\ UNCHANGED chat_sessions
        ELSE IF Strip(text_content) = <<>>
        THEN /\ response' = Respond("upload", filename, 400,
                    [detail |-> "File appears to be empty"])
             /\ UNCHANGED chat_sessions
        ELSE /\ chat_sessions' =
                    SetItem(chat_sessions,
                            [session_id |-> session_id,
                             filename   |-> filename,
                             dataframe  |-> [rows |-> parsed.df,
                                             columns |-> parsed.columns,
                                             added |-> {},
                                             weekday |-> "object"],
                             raw_text   |-> text_content])
             /\ IF parsed.raised # NoError
                THEN response' = Respond("upload", filename, 500,
                        [detail |-> <<"Upload failed: ", parsed.raised>>])
                ELSE response' = Respond("upload", filename, 200,
                        [status |-> "success",
                         session_id |-> session_id,
                         filename |-> filename,
                         message |-> "Chat file uploaded and processed successfully"])

\* POST /upload (lines 119-186) for a file of the given name whose bytes
\* decode to the given text, `parsed` being what analyzer.parse_chat does
\* with the text on line 157.
Uploaded(filename, text_content, parsed) ==
    LET session_id == SessionName(Len(chat_sessions) + 1)
    IN  IF ~EndsWith(filename, <<".","t","x","t">>)
        THEN /\ response' = Respond("upload", filename, 400,
                    [detail |-> "Please upload a WhatsApp chat export file (.txt format)"])
             /\ UNCHANGED chat_sessions
        ELSE IF Strip(text_content) = <<>>
        THEN /\ response' = Respond("upload", filename, 400,
                    [detail |-> "File appears to be empty"])
             /\ UNCHANGED chat_sessions
        ELSE IF parsed.raised # NoError
        THEN /\ response' = Respond("upload", filename, 500,
                    [detail |-> <<"Upload failed: ", parsed.raised>>])
             /\ UNCHANGED chat_sessions
        ELSE /\ chat_sessions' =
                    SetItem(chat_sessions,
                            [session_id |-> session_id,
                             filename   |-> filename,
                             dataframe  |-> [rows |-> parsed.df,
                                             columns |-> parsed.columns,
                                             added |-> {},
                                             weekday |-> "object"],
                             raw_text   |-> text_content])
             /\ response' = Respond("upload", filename, 200,
                    [status |-> "success",
                     session_id |-> session_id,
                     filename |-> filename,
                     message |-> "Chat file uploaded and processed successfully"])

upload_chat_file(filename, text_content) ==
    Uploaded(filename, text_content, parse_chat(text_content))

\* GET /content/{session_id} (lines 278-337).  The handler looks up the
\* name Counter on line 290; the words and emojis of lines 288-318 are
\* counted by libraries outside the repository and the model keeps, of the
\* body, the persons it is keyed by.
get_content_analysis(session_id) ==
    /\ UNCHANGED chat_sessions
    /\ IF ~HasKey(chat_sessions, session_id)
       THEN response' = Respond("content", session_id, 404,
                                [detail |-> <<"Session not found">>])
       ELSE IF "Counter" \notin ModuleNames
       THEN response' = Respond("content", session_id, 500,
                [detail |-> <<"Content analysis failed: ",
                              "name 'Counter' is not defined">>])
       ELSE LET rows == Item(chat_sessions, session_id).dataframe.rows
            IN  response' = Respond("content", session_id, 200,
                    [status |-> "success",
                     by_person |-> {rows[j].person : j \in 1..Len(rows)}])

\* n as two digits.
TwoDigits(n) == <<Digits[(n \div 10) + 1], Digits[(n % 10) + 1]>>

\* Timestamp.isoformat() of a time of whole seconds.
isoformat(dt) ==
    Decimal(dt.year) \o <<"-">> \o TwoDigits(dt.month) \o <<"-">>
        \o TwoDigits(dt.day) \o <<"T">> \o TwoDigits(dt.hour) \o <<":">>
        \o TwoDigits(dt.minute) \o <<":">> \o TwoDigits(dt.second)

\* df['DateTime'].min() and .max()
MinTime(rows) ==
    rows[CHOOSE j \in 1..Len(rows) :
            \A h \in 1..Len(rows) : ~Earlier(rows[h].DateTime, rows[j].DateTime)].DateTime
MaxTime(rows) ==
    rows[CHOOSE j \in 1..Len(rows) :
            \A h \in 1..Len(rows) : ~Earlier(rows[j].DateTime, rows[h].DateTime)].DateTime

\* GET /sessions (lines 486-505)
list_sessions ==
    /\ UNCHANGED chat_sessions
    /\ response' = Respond("sessions", <<>>, 200,
          [status |-> "success",
           data |-> [k \in 1..Len(chat_sessions) |->
                       LET rows == chat_sessions[k].dataframe.rows
                       IN  [session_id |-> chat_sessions[k].session_id,
                            filename |-> chat_sessions[k].filename,
                            total_messages |-> Len(rows),
                            date_range |->
                                [start |-> isoformat(MinTime(rows)),
                                 end |-> isoformat(MaxTime(rows))]]]])

(***************************************************************************)
(* routes.py: the endpoints that analyse a stored session                  *)
(***************************************************************************)
\* date.toordinal(): the days from 0001-01-01, which is day 1.
toordinal(dt) ==
    LET y == dt.year - 1
        before == [m \in 1..12 |->
                     IF m = 1 THEN 0
                     ELSE LET s[k \in 1..12] ==
                                 IF k = 1 THEN DaysInMonth(dt.year, 1)
                                 ELSE s[k - 1] + DaysInMonth(dt.year, k)
                          IN  s[m - 1]]
    IN  365 * y + (y \div 4) - (y \div 100) + (y \div 400)
            + before[dt.month] + dt.day

weekday_order ==
    <<"Monday", "Tuesday", "Wednesday", "Thursday", "Friday", "Saturday",
      "Sunday">>

month_names ==
    <<"January", "February", "March", "April", "May", "June", "July",
      "August", "September", "October", "November", "December">>

\* Series.dt.day_name() and .dt.month_name() of one time (lines 167-168).
day_name(dt) == weekday_order[((toordinal(dt) + 6) % 7) + 1]
month_name(dt) == month_names[dt.month]

\* The keys of the groupings of get_timeline_data: the date, the week
\* (Monday to Sunday) of .dt.to_period('W') and the month of
\* .dt.to_period('M').
DateKey(dt) == [year |-> dt.year, month |-> dt.month, day |-> dt.day]
WeekKey(dt) == [week |-> (toordinal(dt) - 1) \div 7]
MonthKey(dt) == [year |-> dt.year, month |-> dt.month]

\* Series.value_counts().to_dict() of a column, the column given as the
\* sequence of its values: a count for every value that occurs.
value_counts(column) ==
    [v \in {column[j] : j \in 1..Len(column)} |->
        Cardinality({j \in 1..Len(column) : column[j] = v})]

\* The same for a column of dtype category: a count for every category,
\* 0 for a category no row has.
value_counts_categorical(column, categories) ==
    [v \in {categories[j] : j \in 1..Len(categories)} |->
        Cardinality({j \in 1..Len(column) : column[j] = v})]

\* df[df['person'] == person]
RowsOf(rows, person) == SelectSeq(rows, LAMBDA r : r.person = person)

Persons(rows) == {rows[j].person : j \in 1..Len(rows)}

\* df['weekday'].value_counts().to_dict() for a frame whose weekday column
\* has the given dtype (lines 247 and 255).
WeekdayCounts(rows, dtype) ==
    LET column == [j \in 1..Len(rows) |-> day_name(rows[j].DateTime)]
    IN  IF dtype = "category"
        THEN value_counts_categorical(column, weekday_order)
        ELSE value_counts(column)

\* The stored session with its frame replaced.
WithFrame(sessions, session_id, frame) ==
    [k \in 1..Len(sessions) |->
        IF sessions[k].session_id = session_id
        THEN [sessions[k] EXCEPT !.dataframe = frame]
        ELSE sessions[k]]

NotFound(op, session_id) ==
    /\ response' = Respond(op, session_id, 404, [detail |-> <<"Session not found">>])
    /\ UNCHANGED chat_sessions

\* GET /summary/{session_id} (lines 188-230).  Of the figures of the
\* answer the model keeps the counts and the date range; the means and the
\* URL count are sums over columns no handler writes.
get_chat_summary(session_id) ==
    IF ~HasKey(chat_sessions, session_id)
    THEN NotFound("summary", session_id)
    ELSE LET rows == Item(chat_sessions, session_id).dataframe.rows
         IN  /\ UNCHANGED chat_sessions
             /\ response' = Respond("summary", session_id, 200,
                   [status |-> "success",
                    total_messages |-> Len(rows),
                    unique_users |-> Cardinality(Persons(rows)),
                    date_range |-> [start |-> isoformat(MinTime(rows)),
                                    end |-> isoformat(MaxTime(rows))],
                    top_senders |->
                        value_counts([j \in 1..Len(rows) |-> rows[j].person])])

\* The three dictionaries of get_activity_patterns for some rows.
Activity(rows, dtype) ==
    [hourly |-> value_counts([j \in 1..Len(rows) |-> rows[j].DateTime.hour]),
     daily |-> WeekdayCounts(rows, dtype),
     monthly |-> value_counts([j \in 1..Len(rows) |-> month_name(rows[j].DateTime)])]

\* GET /activity/{session_id} (lines 232-276): line 243 adds the column
\* 'hour' to the stored frame when it has none.
get_activity_patterns(session_id) ==
    IF ~HasKey(chat_sessions, session_id)
    THEN NotFound("activity", session_id)
    ELSE LET df0 == Item(chat_sessions, session_id).dataframe
         IN  /\ chat_sessions' =
                    WithFrame(chat_sessions, session_id,
                              [df0 EXCEPT !.added = @ \cup {"hour"}])
             /\ response' = Respond("activity", session_id, 200,
                   [status |-> "success",
                    overall |-> Activity(df0.rows, df0.weekday),
                    by_person |->
                        [p \in Persons(df0.rows) |->
                            Activity(RowsOf(df0.rows, p), df0.weekday)]])

\* groupby(key).size() as a count for each key, the key being the date,
\* the week or the month of the row.
TimelineBy(rows, granularity) ==
    value_counts([j \in 1..Len(rows) |->
        CASE granularity = "daily" -> DateKey(rows[j].DateTime)
          [] granularity = "weekly" -> WeekKey(rows[j].DateTime)
          [] OTHER -> MonthKey(rows[j].DateTime)])

\* GET /timeline/{session_id}?granularity= (lines 339-395): lines 352 and
\* 357 add the column 'week' or 'month_year' to the stored frame; the
\* frames of one person (line 365) are copies.
get_timeline_data(session_id, granularity) ==
    IF ~HasKey(chat_sessions, session_id)
    THEN NotFound("timeline", session_id)
    ELSE LET df0 == Item(chat_sessions, session_id).dataframe
             column == CASE granularity = "daily" -> {}
                         [] granularity = "weekly" -> {"week"}
                         [] OTHER -> {"month_year"}
         IN  /\ chat_sessions' =
                    WithFrame(chat_sessions, session_id,
                              [df0 EXCEPT !.added = @ \cup column])
             /\ response' = Respond("timeline", <<session_id, granularity>>, 200,
                   [status |-> "success",
                    overall |-> TimelineBy(df0.rows, granularity),
                    by_person |->
                        [p \in Persons(df0.rows) |->
                            TimelineBy(RowsOf(df0.rows, p), granularity)],
                    granularity |-> granularity])

\* The names of the charts generate_visualizations makes (analyzer.py lines
\* 216-272); the pictures are drawn by libraries outside the repository.
chart_names ==
    {"weekday_chart", "month_chart", "timeline_chart", "pie_chart", "wordcloud"}

chart_types == {"weekday", "month", "timeline", "pie", "wordcloud"}

\* WhatsAppChatAnalyzer.generate_visualizations(df) (analyzer.py lines
\* 216-272) on the frame it is given, which is the stored one: line 226
\* makes its 'weekday' column an ordered categorical.
generate_visualizations(frame) == [frame EXCEPT !.weekday = "category"]

\* GET /visualizations/{session_id}?chart_type= (lines 397-433), "" for
\* no chart_type.  `drawn` is what the plotting libraries do: "style" when
\* line 221 finds no style of that name, "failed" when a chart raises
\* after line 226, "done" otherwise.
get_visualizations(session_id, chart_type, drawn) ==
    IF ~HasKey(chat_sessions, session_id)
    THEN NotFound("visualizations", session_id)
    ELSE IF chart_type # "" /\ chart_type \notin chart_types
    THEN /\ response' = Respond("visualizations", <<session_id, chart_type>>, 400,
                                [detail |-> <<"Invalid chart type">>])
         /\ UNCHANGED chat_sessions
    ELSE LET df0 == Item(chat_sessions, session_id).dataframe
         IN  IF drawn = "style"
             THEN /\ response' = Respond("visualizations", <<session_id, chart_type>>, 500,
                        [detail |-> <<"Visualization generation failed: ">>])
                  /\ UNCHANGED chat_sessions
             ELSE /\ chat_sessions' =
                        WithFrame(chat_sessions, session_id,
                                  generate_visualizations(df0))
                  /\ IF drawn = "failed"
                     THEN response' = Respond("visualizations", <<session_id, chart_type>>, 500,
                            [detail |-> <<"Visualization generation failed: ">>])
                     ELSE response' = Respond("visualizations", <<session_id, chart_type>>, 200,
                            [status |-> "success",
                             charts |-> IF chart_type = "" THEN chart_names
                                        ELSE IF chart_type = "wordcloud" THEN {"wordcloud"}
                                        ELSE {chart_type \o "_chart"}])

\* GET /search/{session_id}?query=&person= (lines 435-484), <<>> for no
\* person.  The query is a word of letters, for which the regular
\* expression of str.contains is the word itself.
search_messages(session_id, query, person) ==
    IF ~HasKey(chat_sessions, session_id)
    THEN NotFound("search", session_id)
    ELSE LET df0 == Item(chat_sessions, session_id).dataframe
             n == Len(df0.rows)
             hit(j) == /\ person # <<>> => df0.rows[j].person = person
                       /\ ContainsNoCase(df0.rows[j].message, query)
             found == SelectSeq([j \in 1..n |-> j], hit)
         IN  /\ UNCHANGED chat_sessions
             /\ response' = Respond("search", <<session_id, query, person>>, 200,
                   [status |-> "success",
                    total_results |-> Len(found),
                    results |->
                        [k \in 1..Len(found) |->
                            [datetime |-> isoformat(df0.rows[found[k]].DateTime),
                             person |-> df0.rows[found[k]].person,
                             message |-> df0.rows[found[k]].message,
                             word_count |-> df0.columns[found[k]].word_count,
                             letter_count |-> df0.columns[found[k]].letter_count]]])

\* delete_session that empties the store.
delete_sessionClears(session_id) ==
    IF ~HasKey(chat_sessions, session_id)
    THEN /\ response' = Respond("delete", session_id, 404,
                                [detail |-> <<"Session not found">>])
         /\ UNCHANGED chat_sessions
    ELSE /\ chat_sessions' = <<>>
         /\ response' = Respond("delete", session_id, 200,
                [status |-> "success",
                 message |-> <<"Session ", session_id, " deleted successfully">>])

\* DELETE /sessions/{session_id} (lines 507-518)
delete_session(session_id) ==
    IF ~HasKey(chat_sessions, session_id)
    THEN /\ response' = Respond("delete", session_id, 404,
                                [detail |-> <<"Session not found">>])
         /\ UNCHANGED chat_sessions
    ELSE /\ chat_sessions' = DelItem(chat_sessions, session_id)
         /\ response' = Respond("delete", session_id, 200,
                [status |-> "success",
                 message |-> <<"Session ", session_id, " deleted successfully">>])

(***************************************************************************)
(* Inputs                                                                  *)
(***************************************************************************)
\* The most lines a chat text of Spec has.
MaxLines == 3

\* dialect 1
HelloLine ==
    <<"[","1","/","2","/","2","3",","," ","3",":","0","4",":","0","5"," ","P","M","]"," ","A","l","i","c","e",":"," ","H","e","l","l","o">>
\* a continuation
WorldLine ==
    <<"w","o","r","l","d">>
\* a blank line
BlankLine ==
    <<" ">>
\* matches no pattern and starts with '['
BracketLine ==
    <<"[","n","o","t","e">>
\* matches no pattern and starts with U+200E and '['
MarkerLine ==
    <<LRM,"[","n","o","t","e">>
\* matches pattern 5, month 13: no time parses
BadMonthLine ==
    <<"1","3","/","1","/","2","3",","," ","9",":","0","0"," ","A","M"," ","-"," ","B","o","b",":"," ","h","i">>
\* dialect 4, earlier than the others
OldLine ==
    <<"1","/","1","/","2","2",","," ","9",":","0","0"," ","-"," ","B","o","b",":"," ","o","l","d">>
\* dialect 1, the message is a lone carriage return
EmptyBodyLine ==
    <<"[","1","/","2","/","2","3",","," ","3",":","0","4",":","0","7"," ","P","M","]"," ","B","o","b",":"," ","\r">>
\* dialect 2 (after U+200E) with a 4-digit year; ordinary text holding
\* 'deleted' with a capital
DeletedLine ==
    <<LRM,"[","1","/","2","/","2","0","2","3",","," ","3",":","0","4",":","0","8"," ","P","M","]"," ","A","l","i","c","e",":"," ","D","e","l","e","t","e","d"," ","i","t">>
\* a continuation that holds a notice, with white space around it (a CRLF
\* line end)
OmittedLine ==
    <<" ","o","m","i","t","t","e","d"," ","\r">>

LineSet ==
    {HelloLine, WorldLine, BlankLine, BracketLine, MarkerLine,
     BadMonthLine, OldLine, EmptyBodyLine, DeletedLine, OmittedLine}

\* The chat texts of Spec: up to MaxLines lines of LineSet, joined by "\n".
Texts ==
    {Join(ls, <<"\n">>) : ls \in UNION {[1..k -> LineSet] : k \in 0..MaxLines}}

\* The line of the text was not written out from parts.
NotWritten == [style |-> "none", year |-> <<>>, person |-> <<>>, message |-> <<>>]

\* No request has been handled yet.
NoResponse == [op |-> "none", status_code |-> 0]

InitCall ==
    /\ pc = "start"
    /\ lines = <<>>
    /\ cur = 0
    /\ data = <<>>
    /\ df = <<>>
    /\ raised = NoError
    /\ origin = <<>>
    /\ trace = <<>>
    /\ outcome = "none"
    /\ index = <<>>
    /\ columns = <<>>
    /\ past = <<>>
    /\ chat_sessions = <<>>
    /\ response = NoResponse

Init ==
    /\ raw_text \in Texts
    /\ meant = NoTime
    /\ written = NotWritten
    /\ InitCall

Spec == Init /\ [][Next]_vars

(***************************************************************************)
(* Inputs of SpecDates: one time-stamped line written out from its parts,  *)
(* in the layout of each dialect, alone or followed by a continuation      *)
(***************************************************************************)
\* The layouts: "[a/b/y, h:04:05 AP]", the same after U+200E, "a/b/y, h:04 -",
\* "a/b/y, h:04 AP -", "y-aa-bb hh:04:05 -" and "a.b.y, h:04 -".
Styles == {"bracket", "lrm", "slash24", "slash12", "iso", "dot"}

\* The numbers a line is written with, as text and as the number meant.
FirstNumbers == {<<"2">>, <<"1","3">>, <<"3","1">>}
SecondNumbers == {<<"1">>, <<"2">>, <<"1","3">>}
YearTexts == {<<"2","3">>, <<"9","9">>, <<"2","0","2">>, <<"2","0","2","3">>}
HourTexts == {<<"3">>, <<"1","2">>, <<"1","3">>}
Meridiems == {<<"A","M">>, <<"P","M">>}
\* Sender and body as written between the time stamp and the end of the
\* line, "Bob: hi", "Bob: image omitted" and " Al B : a: b ", and the
\* person and the message the writer meant by them.
Parts ==
    {[sender |-> <<"B","o","b">>, body |-> <<"h","i">>,
      person |-> <<"B","o","b">>, message |-> <<"h","i">>],
     [sender |-> <<"B","o","b">>,
      body |-> <<"i","m","a","g","e"," ","o","m","i","t","t","e","d">>,
      person |-> <<"B","o","b">>,
      message |-> <<"i","m","a","g","e"," ","o","m","i","t","t","e","d">>],
     [sender |-> <<" ","A","l"," ","B"," ">>,
      body |-> <<"a",":"," ","b"," ">>,
      person |-> <<"A","l"," ","B">>,
      message |-> <<"a",":"," ","b">>]}
Tails == {<<>>, <<"\n">> \o WorldLine}

NumberMeant(txt) ==
    CASE txt = <<"1">> -> 1
      [] txt = <<"2">> -> 2
      [] txt = <<"3">> -> 3
      [] txt = <<"1","2">> -> 12
      [] txt = <<"1","3">> -> 13
      [] txt = <<"3","1">> -> 31

\* A year of two digits is of this century up to 68 and of the last from 69.
YearMeant(txt) ==
    CASE txt = <<"2","3">> -> 2023
      [] txt = <<"9","9">> -> 1999
      [] txt = <<"2","0","2","3">> -> 2023
      [] OTHER -> 0

Pad2(txt) == IF Len(txt) = 1 THEN <<"0">> \o txt ELSE txt

TwelveHour(style) == style \in {"bracket", "lrm", "slash12"}
MonthFirst(style) == style \in {"bracket", "lrm", "slash12", "iso"}
WithSeconds(style) == style \in {"bracket", "lrm", "iso"}

\* The line of the given layout, written with the given parts.
Render(style, a, b, y, h, ap, part) ==
    LET slashes == a \o <<"/">> \o b \o <<"/">> \o y
        sender == part.sender \o <<":"," ">> \o part.body
        bracket == <<"[">> \o slashes \o <<","," ">> \o h
                      \o <<":","0","4",":","0","5"," ">> \o ap
                      \o <<"]"," ">> \o sender
    IN  CASE style = "bracket" -> bracket
          [] style = "lrm" -> <<LRM>> \o bracket
          [] style = "slash24" ->
                 slashes \o <<","," ">> \o h \o <<":","0","4"," ","-"," ">>
                    \o sender
          [] style = "slash12" ->
                 slashes \o <<","," ">> \o h \o <<":","0","4"," ">> \o ap
                    \o <<" ","-"," ">> \o sender
          [] style = "iso" ->
                 y \o <<"-">> \o Pad2(a) \o <<"-">> \o Pad2(b) \o <<" ">>
                    \o Pad2(h) \o <<":","0","4",":","0","5"," ","-"," ">>
                    \o sender
          [] style = "dot" ->
                 a \o <<".">> \o b \o <<".">> \o y \o <<","," ">> \o h
                    \o <<":","0","4"," ","-"," ">> \o sender

\* The time the writer of such a line meant, NoTime when the parts name no
\* time: a year of three digits, a month after 12, a day the month does not
\* have, an hour after 12 beside AM or PM.
Denoted(style, a, b, y, h, ap) ==
    LET year == YearMeant(y)
        month == IF MonthFirst(style) THEN NumberMeant(a) ELSE NumberMeant(b)
        day == IF MonthFirst(style) THEN NumberMeant(b) ELSE NumberMeant(a)
        hh == NumberMeant(h)
        hour == IF ~TwelveHour(style) THEN hh
                ELSE IF ap = <<"P","M">>
                THEN (IF hh = 12 THEN 12 ELSE hh + 12)
                ELSE (IF hh = 12 THEN 0 ELSE hh)
    IN  IF \/ year = 0
           \/ month > 12
           \/ day > DaysInMonth(year, month)
           \/ (TwelveHour(style) /\ hh > 12)
        THEN NoTime
        ELSE [year |-> year, month |-> month, day |-> day, hour |-> hour,
              minute |-> 4,
              second |-> IF WithSeconds(style) THEN 5 ELSE 0]

InitDates ==
    /\ \E style \in Styles, a \in FirstNumbers, b \in SecondNumbers,
          y \in YearTexts, h \in HourTexts, ap \in Meridiems,
          part \in Parts, tail \in Tails :
          /\ raw_text = Render(style, a, b, y, h, ap, part) \o tail
          /\ meant = Denoted(style, a, b, y, h, ap)
          /\ written = [style |-> style, year |-> y,
                        person |-> part.person, message |-> part.message]
    /\ InitCall

SpecDates == InitDates /\ [][Next]_vars

(***************************************************************************)
(* SpecCalls: parse_chat called again and again on the one analyzer of     *)
(* routes.py (line 117), each call with a text of its own                  *)
(***************************************************************************)
\* The most calls a behaviour of SpecCalls makes.
MaxCalls == 3

\* HelloLine with U+202F before the meridiem and after the body.
NarrowHelloLine ==
    <<"[","1","/","2","/","2","3",","," ","3",":","0","4",":","0","5",NNBSP,"P","M","]"," ","A","l","i","c","e",":"," ","H","e","l","l","o",NNBSP>>

\* HelloLine with the space after the body that NarrowHelloLine has U+202F
\* for.
SpacedHelloLine == HelloLine \o <<" ">>

CallTexts ==
    {HelloLine,
     NarrowHelloLine \o <<"\n">> \o WorldLine,
     SpacedHelloLine \o <<"\n">> \o WorldLine,
     WorldLine,
     DeletedLine,
     OldLine \o <<"\n">> \o NarrowHelloLine}

\* What a call that has ended leaves to its caller.
Ended ==
    [raw_text |-> raw_text, pc |-> pc, raised |-> raised, df |-> df,
     columns |-> columns]

\* A further call of parse_chat: its argument is bound, and its result is
\* not there yet.  The locals `lines` and `data` hold what the call before
\* left until lines 42 and 43 assign them.
NextCall ==
    /\ pc \in {"raised", "returned"}
    /\ Len(past) < MaxCalls - 1
    /\ past' = Append(past, Ended)
    /\ raw_text' \in CallTexts
    /\ pc' = "start"
    /\ df' = <<>>
    /\ columns' = <<>>
    /\ raised' = NoError
    /\ origin' = <<>>
    /\ trace' = <<>>
    /\ outcome' = "none"
    /\ index' = <<>>
    /\ UNCHANGED <<lines, cur, data, meant, written, chat_sessions, response>>

NextCalls == Next \/ NextCall

InitCalls ==
    /\ raw_text \in CallTexts
    /\ meant = NoTime
    /\ written = NotWritten
    /\ InitCall

SpecCalls == InitCalls /\ [][NextCalls]_vars

(***************************************************************************)
(* SpecSessions: requests to the endpoints of routes.py, one at a time     *)
(***************************************************************************)
\* The most sessions the store holds in a behaviour of SpecSessions.
MaxSessions == 3

FileNames == {<<"a",".","t","x","t">>, <<"a",".","c","s","v">>}

\* Files of one and of two messages, of a continuation only, of a deleted
\* message only, and of white space.
UploadTexts ==
    {HelloLine, OldLine \o <<"\n">> \o HelloLine \o <<"\n">> \o WorldLine,
     WorldLine, DeletedLine, BlankLine}

\* The session ids requests come with: the ids of the store and one more.
RequestIds == {SessionName(n) : n \in 1..(MaxSessions + 1)}

Upload ==
    /\ Len(chat_sessions) < MaxSessions
    /\ \E filename \in FileNames, text_content \in UploadTexts :
          upload_chat_file(filename, text_content)
    /\ UNCHANGED call_vars

GetContent ==
    /\ \E session_id \in RequestIds : get_content_analysis(session_id)
    /\ UNCHANGED call_vars

ListSessions ==
    /\ list_sessions
    /\ UNCHANGED call_vars

DeleteSession ==
    /\ \E session_id \in RequestIds : delete_session(session_id)
    /\ UNCHANGED call_vars

NextSessions == Upload \/ GetContent \/ ListSessions \/ DeleteSession

InitSessions ==
    /\ raw_text = <<>>
    /\ meant = NoTime
    /\ written = NotWritten
    /\ InitCall

SpecSessions == InitSessions /\ [][NextSessions]_vars

(***************************************************************************)
(* SpecReads: uploads followed by requests to the endpoints that analyse   *)
(* a stored session                                                        *)
(***************************************************************************)
\* The most sessions the store holds in a behaviour of SpecReads.
MaxReadSessions == 2

\* A file of one message, of a Monday, and a file of two messages of two
\* persons, of a Saturday and of that Monday.
ReadTexts ==
    {HelloLine, OldLine \o <<"\n">> \o HelloLine \o <<"\n">> \o WorldLine}

ReadIds == {SessionName(n) : n \in 1..(MaxReadSessions + 1)}

Granularities == {"daily", "weekly", "monthly"}

\* No chart_type, one of the five and one that is none of them.
ChartTypes == {"", "pie", "radar"}

Drawn == {"style", "failed", "done"}

Queries == {<<"h","e","l","l","o">>, <<"O">>}

PersonFilters == {<<>>, <<"B","o","b">>}

UploadToRead ==
    /\ Len(chat_sessions) < MaxReadSessions
    /\ \E text_content \in ReadTexts :
          upload_chat_file(<<"a",".","t","x","t">>, text_content)
    /\ UNCHANGED call_vars

GetSummary ==
    /\ \E session_id \in ReadIds : get_chat_summary(session_id)
    /\ UNCHANGED call_vars

GetActivity ==
    /\ \E session_id \in ReadIds : get_activity_patterns(session_id)
    /\ UNCHANGED call_vars

ReadContent ==
    /\ \E session_id \in ReadIds : get_content_analysis(session_id)
    /\ UNCHANGED call_vars

GetTimeline ==
    /\ \E session_id \in ReadIds, granularity \in Granularities :
          get_timeline_data(session_id, granularity)
    /\ UNCHANGED call_vars

GetVisualizations ==
    /\ \E session_id \in ReadIds, chart_type \in ChartTypes, drawn \in Drawn :
          get_visualizations(session_id, chart_type, drawn)
    /\ UNCHANGED call_vars

SearchMessages ==
    /\ \E session_id \in ReadIds, query \in Queries, person \in PersonFilters :
          search_messages(session_id, query, person)
    /\ UNCHANGED call_vars

NextReads ==
    \/ UploadToRead
    \/ GetSummary
    \/ GetActivity
    \/ ReadContent
    \/ GetTimeline
    \/ GetVisualizations
    \/ SearchMessages
    \/ ListSessions

SpecReads == InitSessions /\ [][NextReads]_vars

(***************************************************************************)
(* SpecNotices: chats of the dash dialects with lines the platform writes  *)
(* itself, which carry a timestamp and no sender                           *)
(***************************************************************************)
\* dialect 4, no "Sender: " part, a notice of the content filter's list
MissedCallLine ==
    <<"1","/","1","/","2","2",","," ","9",":","0","5"," ","-"," ",
      "M","i","s","s","e","d"," ","v","o","i","c","e"," ","c","a","l","l">>
\* dialect 4, no "Sender: " part, a change of the group
JoinedLine ==
    <<"1","/","1","/","2","2",","," ","9",":","0","6"," ","-"," ",
      "B","o","b"," ","j","o","i","n","e","d">>
\* dialect 5, no "Sender: " part
LeftLine ==
    <<"1","/","2","/","2","3",","," ","9",":","0","7"," ","A","M"," ","-"," ",
      "A","l"," ","l","e","f","t">>
\* dialect 5
HiLine ==
    <<"1","/","2","/","2","3",","," ","9",":","0","8"," ","A","M"," ","-"," ",
      "A","l",":"," ","h","i">>

NoticeLineSet ==
    {OldLine, HiLine, MissedCallLine, JoinedLine, LeftLine, WorldLine}

\* The chat texts of SpecNotices: up to MaxLines lines of NoticeLineSet.
NoticeTexts ==
    {Join(ls, <<"\n">>) :
        ls \in UNION {[1..k -> NoticeLineSet] : k \in 1..MaxLines}}

InitNotices ==
    /\ raw_text \in NoticeTexts
    /\ meant = NoTime
    /\ written = NotWritten
    /\ InitCall

SpecNotices == InitNotices /\ [][Next]_vars

(***************************************************************************)
(* Vocabulary of the properties                                            *)
(***************************************************************************)
\* A line that is empty or white space only.
Blank(l) == \A i \in 1..Len(l) : IsSpace(l[i])

\* The patterns that match a line.
Matching(l) == {i \in 1..NumPatterns : ReMatch(patterns[i], l).ok}

\* The first pattern, in the order of the list, that matches a line.
FirstMatch(l) ==
    LET m == Matching(l) IN CHOOSE i \in m : \A j \in m : i <= j

\* A line that begins with '[' or with U+200E and '['.
StartsLikeBracket(l) ==
    \/ CharAt(l, 1) = "["
    \/ (CharAt(l, 1) = LRM /\ CharAt(l, 2) = "[")

\* A line some pattern matches although no time parses for it.
TimeFails(l) == Matching(l) # {} /\ ~TryPatterns(l, 1).parsed

\* The loop is about to take the line lines[cur].
AtLine == pc = "loop" /\ cur <= Len(lines)

\* The call has ended, by return or by raise.
Terminated == pc \in {"raised", "returned"}

\* The body with "\n" and the trimmed line appended.
Extended(body, l) == body \o <<"\n">> \o Strip(l)

\* A body that holds one of the notices, compared in lower case.
IsNotice(body) ==
    LET low == Lower(body)
    IN  \E j \in 1..Len(system_messages) : Contains(low, system_messages[j])

\* The elements of a sequence.
Range(q) == {q[i] : i \in 1..Len(q)}

\* A sequence of numbers that increases strictly.
Increasing(q) == \A i \in 1..(Len(q) - 1) : q[i] < q[i + 1]

HelloWorldText == HelloLine \o <<"\n">> \o WorldLine
HelloWorldBody == <<"H","e","l","l","o","\n","w","o","r","l","d">>

(***************************************************************************)
(* C1                                                                      *)
(***************************************************************************)
\* C1: a non-blank line that matches no pattern and does not start with '['
\* or U+200E '[', taken when a record exists, leaves the number of records
\* as it is, appends "\n" and the trimmed line to the body of the last
\* record and changes nothing else of any record; and the text
\* "[1/2/23, 3:04:05 PM] Alice: Hello\nworld" returns exactly one record,
\* whose body is "Hello\nworld".
C1_ContinuationJoinsLast ==
    /\ [][(/\ AtLine
           /\ ~Blank(lines[cur])
           /\ Matching(lines[cur]) = {}
           /\ ~StartsLikeBracket(lines[cur])
           /\ Len(data) >= 1)
          => (/\ Len(data') = Len(data)
              /\ \A k \in 1..(Len(data) - 1) : data'[k] = data[k]
              /\ data'[Len(data)] =
                    [data[Len(data)] EXCEPT
                        !.message = Extended(@, lines[cur])])]_vars
    /\ []((raw_text = HelloWorldText /\ Terminated)
          => (/\ pc = "returned"
              /\ Len(df) = 1
              /\ df[1].message = HelloWorldBody))

\* A continuation has just been joined while two records exist.
C1_Witness ==
    /\ pc = "loop"
    /\ outcome = "joined"
    /\ Len(data) >= 2
    /\ Matching(lines[cur - 1]) = {}

(***************************************************************************)
(* C2                                                                      *)
(***************************************************************************)
\* C2 as stated: a line that a pattern matches but for which no time
\* parses, taken when a record exists and not starting with '[', is
\* appended with a leading "\n" to the body of the last record.
C2_FailedTimeIsJoined ==
    [][(/\ AtLine
        /\ ~Blank(lines[cur])
        /\ TimeFails(lines[cur])
        /\ Len(data) >= 1
        /\ ~StartsLikeBracket(lines[cur]))
       => (data' = [data EXCEPT
                       ![Len(data)].message = Extended(@, lines[cur])])]_vars

\* C2 amended: a line that a pattern matches but for which no time parses
\* is dropped: it starts no record and no record changes, whether or not a
\* record exists and whatever the line starts with.
C2_FailedTimeIsDropped ==
    [][(/\ AtLine
        /\ ~Blank(lines[cur])
        /\ TimeFails(lines[cur]))
       => (data' = data /\ origin' = origin)]_vars

\* Such a line, not starting with '[', has just been dropped although a
\* record exists.
C2_Witness ==
    /\ pc = "loop"
    /\ outcome = "dropped"
    /\ Len(data) >= 1
    /\ TimeFails(lines[cur - 1])
    /\ ~StartsLikeBracket(lines[cur - 1])

(***************************************************************************)
(* C3                                                                      *)
(***************************************************************************)
\* C3: no record of the returned sequence has a body that is empty after
\* trimming.
C3_BodyNeverEmpty ==
    pc = "returned" => \A k \in 1..Len(df) : Strip(df[k].message) # <<>>

(***************************************************************************)
(* C4                                                                      *)
(***************************************************************************)
\* C4: when the call has ended, it raised EmptyChat exactly if the loop
\* produced no record; a text of blank lines only, or of lines no pattern
\* matches only, ends this way; a returned sequence is never empty.
C4_EmptyChatIffNoRecord ==
    Terminated =>
        /\ (pc = "raised" /\ raised = EmptyChat) <=> (Len(data) = 0)
        /\ (\A i \in 1..Len(raw_text) : IsSpace(raw_text[i]))
               => (pc = "raised" /\ raised = EmptyChat)
        /\ (\A i \in 1..Len(lines) : Blank(lines[i]) \/ Matching(lines[i]) = {})
               => (pc = "raised" /\ raised = EmptyChat)
        /\ pc = "returned" => Len(df) >= 1

\* EmptyChat was raised for a text with a line that is not blank.
C4_Witness ==
    /\ pc = "raised"
    /\ raised = EmptyChat
    /\ \E i \in 1..Len(lines) : ~Blank(lines[i])

(***************************************************************************)
(* C5                                                                      *)
(***************************************************************************)
\* C5: when the call has ended, it raised NoMessagesAfterFiltering exactly
\* if the loop produced a record and every record's body holds a notice;
\* the error differs from EmptyChat; a return carries at least one record
\* and no error.
C5_NoMessagesIffAllFiltered ==
    /\ NoMessagesAfterFiltering # EmptyChat
    /\ Terminated =>
        /\ (pc = "raised" /\ raised = NoMessagesAfterFiltering)
              <=> (/\ Len(data) >= 1
                   /\ \A k \in 1..Len(data) : IsNotice(data[k].message))
        /\ pc = "returned" => (Len(df) >= 1 /\ raised = NoError)

\* NoMessagesAfterFiltering was raised with two records parsed.
C5_Witness ==
    /\ pc = "raised"
    /\ raised = NoMessagesAfterFiltering
    /\ Len(data) >= 2

(***************************************************************************)
(* C6                                                                      *)
(***************************************************************************)
\* The filter has run.
FilterRan ==
    \/ pc = "returned"
    \/ (pc = "raised" /\ raised = NoMessagesAfterFiltering)

\* C6: once the filter has run, the rows kept are exactly the records whose
\* whole body (first line and joined continuations), in lower case, holds
\* none of the notices: every record with such a substring is removed, no
\* other record is, and the returned rows are the kept records unchanged.
C6_KeptIffNoNotice ==
    FilterRan =>
        /\ Range(index) = {k \in 1..Len(data) : ~IsNotice(data[k].message)}
        /\ pc = "returned" =>
              (/\ Len(df) = Len(index)
               /\ \A j \in 1..Len(df) : df[j] = data[index[j]])

\* The filter removed a record for the ordinary text "Deleted it" and a
\* record for a notice that came with a continuation line.
C6_Witness ==
    /\ FilterRan
    /\ \E k \in 1..Len(data) :
          /\ k \notin Range(index)
          /\ Contains(data[k].message, <<"D","e","l","e","t","e","d"," ","i","t">>)
    /\ \E k \in 1..Len(data) :
          /\ k \notin Range(index)
          /\ Contains(data[k].message, <<"\n">>)

(***************************************************************************)
(* C7                                                                      *)
(***************************************************************************)
\* C7: the records are in the order of the lines that started them (record
\* k carries the time and sender of line origin[k], and origin increases),
\* and the returned rows are a subsequence of them: the index kept
\* increases and row j is record index[j].  Nothing is sorted by time.
C7_FileOrder ==
    /\ Increasing(origin)
    /\ Len(origin) = Len(data)
    /\ \A k \in 1..Len(data) :
          /\ origin[k] \in 1..Len(lines)
          /\ LET l == lines[origin[k]]
                 m == Matching(l)
                 f == CHOOSE i \in m : \A j \in m : i <= j
                 g == Groups(l, ReMatch(patterns[f], l))
             IN /\ m # {}
                /\ data[k].person = Strip(g[3])
                /\ HasAt(data[k].message, 1, Strip(g[4]))
    /\ FilterRan =>
          /\ Increasing(index)
          /\ Range(index) \subseteq 1..Len(data)
    /\ pc = "returned" =>
          /\ Len(df) = Len(index)
          /\ \A j \in 1..Len(df) : df[j] = data[index[j]]

\* Two rows were returned of which the second carries the earlier time.
C7_Witness ==
    /\ pc = "returned"
    /\ Len(df) >= 2
    /\ Earlier(df[2].DateTime, df[1].DateTime)

(***************************************************************************)
(* C8                                                                      *)
(***************************************************************************)
\* What C8 says of a single state: the call is at one of its places; when
\* it has ended the loop has taken every line; a raise is one of the two
\* errors and a return carries rows and no error.
C8_EndsWholeInput ==
    /\ pc \in {"start", "loop", "raised", "returned"}
    /\ pc = "loop" => cur \in 1..(Len(lines) + 1)
    /\ Terminated => cur = Len(lines) + 1
    /\ pc = "raised" =>
          (raised \in {EmptyChat, NoMessagesAfterFiltering} /\ df = <<>>)
    /\ pc = "returned" => (raised = NoError /\ Len(df) >= 1)

\* C8: a call ends only by returning rows or by raising one of the two
\* errors, and only when the loop has taken every line; whatever a line
\* is, the step that takes it raises nothing and goes on to the line
\* after it.
C8_OnlyWholeInputErrors ==
    /\ []C8_EndsWholeInput
    /\ [][AtLine => (pc' = "loop" /\ cur' = cur + 1 /\ raised' = NoError)]_vars

\* Rows were returned for a text in which a line whose time failed to parse
\* comes before a line that started a record.
C8_Witness ==
    /\ pc = "returned"
    /\ \E j \in 1..Len(lines) :
          /\ TimeFails(lines[j])
          /\ \E k \in 1..Len(origin) : origin[k] > j

(***************************************************************************)
(* C9                                                                      *)
(***************************************************************************)
\* The re.match calls of a trace.
MatchEvents(tr) == SelectSeq(tr, LAMBDA e : e.op = "match")

\* C9 as stated: once a pattern has matched a line (its time is then
\* parsed), no other pattern is tried on that line.
C9_NoOtherDialectTried ==
    \A p \in 1..Len(trace) :
        trace[p].op = "primary"
            => \A q \in (p + 1)..Len(trace) : trace[q].i = trace[p].i

\* C9 amended: the patterns are tried in the order of the list, from the
\* first.  The loop ends at the first pattern that matches and whose time
\* parses: no later pattern is tried, the line yields one record, and the
\* record's fields are the groups of the first pattern that matches the
\* line.  When a pattern matches and no time parses for it, the remaining
\* patterns are still tried, and a line that yields no record has had all
\* of them tried.
C9_FirstParsedMatchDecides ==
    outcome \in {"record", "joined", "dropped"} =>
        LET l == lines[cur - 1]
            tried == MatchEvents(trace)
        IN /\ \A p \in 1..Len(tried) : tried[p].i = p
           /\ outcome = "record" =>
                 LET f == FirstMatch(l)
                     g == Groups(l, ReMatch(patterns[f], l))
                     last == trace[Len(trace)]
                     rec == data[Len(data)]
                 IN /\ Len(tried) = f
                    /\ last.op \in {"primary", "alt"} /\ last.i = f
                    /\ rec.person = Strip(g[3])
                    /\ rec.message = Strip(g[4])
                    /\ origin[Len(origin)] = cur - 1
                    /\ Cardinality({k \in 1..Len(origin) : origin[k] = cur - 1}) = 1
           /\ outcome \in {"joined", "dropped"} => Len(tried) = NumPatterns

\* A line has just been dropped that a pattern matched, whose time did not
\* parse, and on which the patterns after it were tried as well.
C9_Witness ==
    /\ outcome = "dropped"
    /\ \E p \in 1..Len(trace) :
          /\ trace[p].op = "primary"
          /\ \E q \in (p + 1)..Len(trace) : trace[q].i > trace[p].i
    /\ Len(MatchEvents(trace)) = NumPatterns

(***************************************************************************)
(* C10                                                                     *)
(***************************************************************************)
\* A format with the year of two digits read as a year of four.
YearAsFour(fmt) ==
    [k \in 1..Len(fmt) |-> IF fmt[k] = "%y" THEN "%Y" ELSE fmt[k]]

\* The primary to_datetime calls of a trace that failed: all but one that
\* ends the trace of a line that gave a record.
FailedPrimaries ==
    {p \in 1..Len(trace) :
        /\ trace[p].op = "primary"
        /\ (p < Len(trace) \/ outcome # "record")}

\* The positions of the fallback to_datetime calls made for pattern i.
Fallbacks(i) ==
    {q \in 1..Len(trace) : trace[q].op = "alt" /\ trace[q].i = i}

\* The digits of the year as a line gives it: what follows the last '/' or
\* '.' of the date the first matching pattern captures.
YearOf(l) ==
    LET date == Groups(l, ReMatch(patterns[FirstMatch(l)], l))[1]
        seps == {k \in 1..Len(date) : date[k] \in {"/", "."}}
        last == CHOOSE k \in seps : \A h \in seps : h <= k
    IN  IF seps = {} THEN <<>> ELSE SubSeq(date, last + 1, Len(date))

\* C10: when the primary format fails for a line of dialect 1, 2, 4 or 7,
\* one fallback is tried, right after it, and its format is the primary
\* one with the year read as four digits; for dialects 3, 5 and 6 none is
\* tried.  A line whose fallback was tried, that gives its year in four
\* digits and names a time, yields a record with that very time.
C10_OneFallbackReadsFourDigitYear ==
    /\ \A i \in {1, 2, 4, 7} : alt_format(i) = YearAsFour(date_formats[i])
    /\ outcome \in {"record", "joined", "dropped"} =>
          \A p \in FailedPrimaries :
              IF trace[p].i \in {1, 2, 4, 7}
              THEN Fallbacks(trace[p].i) = {p + 1}
              ELSE Fallbacks(trace[p].i) = {}
    /\ (/\ pc = "loop" /\ cur = 2
        /\ meant # NoTime
        /\ \E q \in 1..Len(trace) : trace[q].op = "alt"
        /\ Len(YearOf(lines[1])) = 4)
       => (/\ outcome = "record"
           /\ Len(data) = 1
           /\ data[1].DateTime = meant)

\* A line of dialect 7 with a four-digit year has given a record by the
\* fallback, the primary format having failed.
C10_Witness ==
    /\ pc = "loop" /\ cur = 2
    /\ outcome = "record"
    /\ trace[Len(trace)] = [op |-> "alt", i |-> 7]
    /\ Len(YearOf(lines[1])) = 4
    /\ data[1].DateTime = meant
    /\ meant.year = 2023

(***************************************************************************)
(* C11                                                                     *)
(***************************************************************************)
\* The message the first matching pattern captures from a line, trimmed.
CapturedBody(l) ==
    Strip(Groups(l, ReMatch(patterns[FirstMatch(l)], l))[4])

\* C11: a line that is not blank and that no pattern matches, taken while
\* no record exists, is dropped: the step leaves the list of records empty,
\* raises nothing and goes on to the next line.  The line is not kept for
\* later: a record, when one is appended, carries the body its own line
\* gives and nothing else.
C11_OrphanContinuationDropped ==
    /\ [][(/\ AtLine
           /\ ~Blank(lines[cur])
           /\ Matching(lines[cur]) = {}
           /\ data = <<>>)
          => (/\ data' = <<>>
              /\ origin' = origin
              /\ outcome' = "dropped"
              /\ raised' = NoError
              /\ pc' = "loop"
              /\ cur' = cur + 1)]_vars
    /\ [][(AtLine /\ Len(data') > Len(data))
          => (/\ Len(data') = Len(data) + 1
              /\ data'[Len(data')].message = CapturedBody(lines[cur]))]_vars

\* Rows were returned for a text whose first line is a continuation that
\* does not start with '[': the first record comes from a later line and
\* its body is that line's own.
C11_Witness ==
    /\ pc = "returned"
    /\ ~Blank(lines[1])
    /\ Matching(lines[1]) = {}
    /\ ~StartsLikeBracket(lines[1])
    /\ origin[1] = 2
    /\ data[1].message = CapturedBody(lines[2])

(***************************************************************************)
(* C12                                                                     *)
(***************************************************************************)
\* The text without its blank lines.
WithoutBlankLines(text) ==
    Join(SelectSeq(Split(text, "\n"), LAMBDA l : ~Blank(l)), <<"\n">>)

\* The loop has taken every line and the call has not ended yet.
LoopDone == pc = "loop" /\ cur = Len(lines) + 1

\* C12: the step that takes a blank line changes no record, starts none
\* and raises nothing; and when the loop has ended the records are those
\* the text gives with its blank lines deleted.
C12_BlankLineChangesNothing ==
    /\ [][(AtLine /\ Blank(lines[cur]))
          => (/\ data' = data
              /\ origin' = origin
              /\ outcome' = "blank"
              /\ raised' = NoError
              /\ pc' = "loop")]_vars
    /\ [](LoopDone => data = ParseData(WithoutBlankLines(raw_text)))

\* The loop has ended for a text with a blank line between a line that
\* starts a record and a continuation, which was joined to that record.
C12_Witness ==
    /\ LoopDone
    /\ Len(lines) = 3
    /\ Blank(lines[2])
    /\ origin = <<1>>
    /\ data[1].message = Extended(CapturedBody(lines[1]), lines[3])

(***************************************************************************)
(* C13                                                                     *)
(***************************************************************************)
\* C13: a line that yields no record and begins with '[', or with U+200E
\* and '[', is dropped: the step that takes it leaves every record as it
\* was, whether or not a pattern matches the line.
C13_BracketLineNeverJoined ==
    [][(/\ AtLine
        /\ StartsLikeBracket(lines[cur])
        /\ ~TryPatterns(lines[cur], 1).parsed)
       => (/\ data' = data
           /\ origin' = origin
           /\ outcome' = "dropped")]_vars

\* A line beginning with U+200E and '[' that no pattern matches has just
\* been dropped while a record exists.
C13_Witness ==
    /\ pc = "loop"
    /\ outcome = "dropped"
    /\ Len(data) >= 1
    /\ CharAt(lines[cur - 1], 1) = LRM
    /\ CharAt(lines[cur - 1], 2) = "["
    /\ Matching(lines[cur - 1]) = {}

(***************************************************************************)
(* C14                                                                     *)
(***************************************************************************)
\* The calls that have ended, the current one included when it has.
EndedCalls == IF Terminated THEN Append(past, Ended) ELSE past

\* The text with every U+202F written as a space.
Spaced(text) == [i \in 1..Len(text) |-> IF text[i] = NNBSP THEN " " ELSE text[i]]

\* What of a call's end does not name its text.
Outcome(c) == [pc |-> c.pc, raised |-> c.raised, df |-> c.df, columns |-> c.columns]

\* C14: once line 42 has run no line holds U+202F, and two calls whose
\* texts differ only in U+202F for a space end alike: the same rows, or the
\* same error.
C14_NarrowSpaceIsSpace ==
    /\ pc # "start" =>
          \A k \in 1..Len(lines) : \A i \in 1..Len(lines[k]) : lines[k][i] # NNBSP
    /\ \A a, b \in 1..Len(EndedCalls) :
          Spaced(EndedCalls[a].raw_text) = Spaced(EndedCalls[b].raw_text)
              => Outcome(EndedCalls[a]) = Outcome(EndedCalls[b])

\* Two calls have ended, one for a text with U+202F before "PM" and one
\* for the text with a space there, both with the one record "Hello\nworld".
C14_Witness ==
    \E a, b \in 1..Len(EndedCalls) :
        /\ EndedCalls[a].raw_text # EndedCalls[b].raw_text
        /\ Spaced(EndedCalls[a].raw_text) = EndedCalls[b].raw_text
        /\ EndedCalls[a].pc = "returned"
        /\ Len(EndedCalls[a].df) = 1
        /\ EndedCalls[a].df[1].message = HelloWorldBody
        /\ EndedCalls[b].df = EndedCalls[a].df

(***************************************************************************)
(* C17                                                                     *)
(***************************************************************************)
\* C17: two calls with the same text end alike, whatever calls came
\* between them and before them: the same rows with the same columns, or
\* the same error.  A call that has started has an empty list of records
\* until its own lines add to it, and every record it has then comes from
\* one of its own lines.
C17_CallsAreStateless ==
    /\ \A a, b \in 1..Len(EndedCalls) :
          EndedCalls[a].raw_text = EndedCalls[b].raw_text
              => Outcome(EndedCalls[a]) = Outcome(EndedCalls[b])
    /\ (pc = "loop" /\ cur = 1) => data = <<>>
    /\ pc = "loop" => Len(data) <= cur - 1

\* Three calls have ended, the first and the third with the same text and
\* the same record, the second with another text and another end.
C17_Witness ==
    /\ Len(EndedCalls) = 3
    /\ EndedCalls[1].raw_text = EndedCalls[3].raw_text
    /\ EndedCalls[1].raw_text # EndedCalls[2].raw_text
    /\ EndedCalls[1].pc = "returned"
    /\ EndedCalls[2].pc = "returned"
    /\ EndedCalls[2].df # EndedCalls[1].df
    /\ EndedCalls[3].df = EndedCalls[1].df
    /\ EndedCalls[3].columns = EndedCalls[1].columns

(***************************************************************************)
(* C15                                                                     *)
(***************************************************************************)
\* The dialect of the table a written line is of: 0 when the width of its
\* year is not the one the table gives for its layout.
DialectWritten ==
    LET two == Len(written.year) = 2
        four == Len(written.year) = 4
    IN  CASE written.style = "bracket" /\ two -> 1
          [] written.style = "lrm" /\ two -> 2
          [] written.style = "slash24" /\ four -> 3
          [] written.style = "slash24" /\ two -> 4
          [] written.style = "slash12" /\ two -> 5
          [] written.style = "iso" /\ four -> 6
          [] written.style = "dot" /\ two -> 7
          [] OTHER -> 0

\* The first line of the text is a line of the table that names a time,
\* and the loop has just taken it.
WellFormedTaken == pc = "loop" /\ cur = 2 /\ DialectWritten # 0 /\ meant # NoTime

\* C15: a line of one of the seven dialects that names a time gives one
\* record, by the primary format of its dialect: its time is the time
\* meant (the month first in dialects 1, 2 and 5, the day first in 3, 4
\* and 7, year-month-day in 6; the hour beside AM or PM in 1, 2 and 5),
\* its person and its message are what stands before and after the first
\* ": ", trimmed.
C15_EachDialectParses ==
    WellFormedTaken =>
        /\ outcome = "record"
        /\ trace[Len(trace)] = [op |-> "primary", i |-> DialectWritten]
        /\ data = <<[DateTime |-> meant,
                     person   |-> written.person,
                     message  |-> written.message]>>

\* Records exist for a line of dialect d whose day and month differ, whose
\* hour the meridiem changes where the dialect has one, and whose sender
\* and body have spaces around them and a further ": ".
DialectSeen(d) ==
    /\ WellFormedTaken
    /\ DialectWritten = d
    /\ data[1].DateTime.month # data[1].DateTime.day
    /\ d \in {1, 2, 5} => data[1].DateTime.hour = 15
    /\ data[1].person = <<"A","l"," ","B">>
    /\ data[1].message = <<"a",":"," ","b">>

\* Such a record exists for a line of dialect 5, written month first and
\* with PM.
C15_Witness == DialectSeen(5) /\ data[1].DateTime.month = 2

(***************************************************************************)
(* C16                                                                     *)
(***************************************************************************)
\* The white-space separated tokens of a body, from left to right.
RECURSIVE Tokens(_)
Tokens(body) ==
    LET s == Strip(body)
        ends == {i \in 1..Len(s) : IsSpace(s[i])}
        stop == IF ends = {} THEN Len(s) + 1
                ELSE CHOOSE i \in ends : \A h \in ends : i <= h
    IN  IF s = <<>> THEN <<>>
        ELSE <<SubSeq(s, 1, stop - 1)>> \o Tokens(SubSeq(s, stop, Len(s)))

\* C16: in every row returned, letter_count is the length of the trimmed
\* body and word_count is the number of its white-space separated tokens,
\* also for a body that continuation lines were joined to.
C16_CountsOfTrimmedBody ==
    pc = "returned" =>
        /\ Len(columns) = Len(df)
        /\ \A j \in 1..Len(df) :
              /\ columns[j].letter_count = Len(Strip(df[j].message))
              /\ columns[j].word_count = Len(Tokens(df[j].message))

\* What holds of the counts: letter_count is the length of the body as it
\* is stored, white space at its ends included, and word_count is the
\* number of its tokens.
C16_CountsOfStoredBody ==
    pc = "returned" =>
        /\ Len(columns) = Len(df)
        /\ \A j \in 1..Len(df) :
              /\ columns[j].letter_count = Len(df[j].message)
              /\ columns[j].word_count = Len(Tokens(df[j].message))

(***************************************************************************)
(* C18                                                                     *)
(***************************************************************************)
\* C18: the response to GET /content/{session_id} is a success, with the
\* content of the session, when the id is in the store, and it is the 404
\* error when the id is not: no other error is given.
C18_ContentSucceedsForKnownSession ==
    response.op = "content" =>
        IF HasKey(chat_sessions, response.arg)
        THEN response.status_code = 200 /\ response.content.status = "success"
        ELSE response.status_code = 404

(***************************************************************************)
(* C19                                                                     *)
(***************************************************************************)
\* C19: DELETE /sessions/{session_id} for an id of the store removes the
\* item of that id and leaves every other item as it was and where it was;
\* for another id it answers 404 and leaves the store as it was.  The list
\* GET /sessions gives is the list of the ids of the store, so that an id
\* deleted is not in it.
C19_DeleteRemovesExactlyOne ==
    /\ [][response'.op = "delete" =>
            IF HasKey(chat_sessions, response'.arg)
            THEN /\ response'.status_code = 200
                 /\ ~HasKey(chat_sessions', response'.arg)
                 /\ Len(chat_sessions') = Len(chat_sessions) - 1
                 /\ \A k \in 1..Len(chat_sessions) :
                       chat_sessions[k].session_id # response'.arg
                          => \E h \in 1..Len(chat_sessions') :
                                chat_sessions'[h] = chat_sessions[k]
            ELSE /\ response'.status_code = 404
                 /\ chat_sessions' = chat_sessions]_vars
    /\ [](response.op = "sessions" =>
            /\ response.status_code = 200
            /\ Len(response.content.data) = Len(chat_sessions)
            /\ \A k \in 1..Len(chat_sessions) :
                  /\ response.content.data[k].session_id = chat_sessions[k].session_id
                  /\ response.content.data[k].filename = chat_sessions[k].filename)

\* The first of two sessions has just been deleted and the second is in
\* the store with the two rows it was uploaded with.
C19_Witness ==
    /\ response.op = "delete"
    /\ response.status_code = 200
    /\ response.arg = SessionName(1)
    /\ Len(chat_sessions) = 1
    /\ chat_sessions[1].session_id = SessionName(2)
    /\ Len(chat_sessions[1].dataframe.rows) = 2

(***************************************************************************)
(* C20                                                                     *)
(***************************************************************************)
\* C20: an upload that succeeds is stored under an id no item of the store
\* has: the store grows by one item and every item it had is still there,
\* as it was.
C20_UploadNeverOverwrites ==
    [][(response'.op = "upload" /\ response'.status_code = 200)
       => (/\ ~HasKey(chat_sessions, response'.content.session_id)
           /\ Len(chat_sessions') = Len(chat_sessions) + 1
           /\ \A k \in 1..Len(chat_sessions) :
                 chat_sessions'[k] = chat_sessions[k])]_vars

(***************************************************************************)
(* C22                                                                     *)
(***************************************************************************)
\* C22: POST /upload that is answered with an error (400 for a name that
\* does not end in ".txt" or for a text of white space, 500 for a text
\* parse_chat raises on) leaves the session store as it was.
C22_FailedUploadLeavesStore ==
    [][(response'.op = "upload" /\ response'.status_code # 200)
          => chat_sessions' = chat_sessions]_vars

\* An upload has been answered 500 with the error of the content filter
\* while the store holds a session.
C22_Witness ==
    /\ response.op = "upload"
    /\ response.status_code = 500
    /\ response.content.detail = <<"Upload failed: ", NoMessagesAfterFiltering>>
    /\ Len(chat_sessions) >= 1

\* The other error answers of POST /upload.
C22_SeenBadName ==
    response.op = "upload" /\ response.status_code = 400
        /\ response.arg = <<"a",".","c","s","v">> /\ Len(chat_sessions) >= 1

C22_SeenEmptyFile ==
    response.op = "upload" /\ response.status_code = 400
        /\ response.content.detail = "File appears to be empty"
        /\ Len(chat_sessions) >= 1

C22_SeenEmptyChat ==
    response.op = "upload" /\ response.status_code = 500
        /\ response.content.detail = <<"Upload failed: ", EmptyChat>>
        /\ Len(chat_sessions) >= 1

(***************************************************************************)
(* C23                                                                     *)
(***************************************************************************)
\* Pattern i of the dash dialects up to and with its " - ", without the
\* ([^:]+): (.+) that follows.
StampOnly(i) == SubSeq(patterns[i], 1, Len(patterns[i]) - Len(SenderMessage))

\* The line begins with a timestamp of dash dialect i that parses to a
\* time.
StampedAs(l, i) ==
    LET m == ReMatch(StampOnly(i), l)
        s == SubSeq(l, m.caps[1], m.caps[2] - 1) \o <<" ">>
                \o SubSeq(l, m.caps[3], m.caps[4] - 1)
    IN  /\ m.ok
        /\ \/ to_datetime(s, date_formats[i]).ok
           \/ alt_format(i) # <<>> /\ to_datetime(s, alt_format(i)).ok

\* A line with a valid timestamp of a dash dialect and no "Sender: " part.
StampedNotice(l) ==
    /\ \E i \in 3..NumPatterns : StampedAs(l, i)
    /\ ~AnyMatch(l)

\* The text without its lines of that kind.
WithoutNotices(text) ==
    Join(SelectSeq(Split(text, "\n"), LAMBDA l : ~StampedNotice(l)), <<"\n">>)

\* C23: the step that takes a line with a valid dash-dialect timestamp and
\* no "Sender: " part changes no record, and the call ends as it ends for
\* the text without such lines: with the same error, or with the same
\* rows.
C23_NoticeAffectsNoRecord ==
    /\ [][(AtLine /\ StampedNotice(lines[cur])) => data' = data]_vars
    /\ [](Terminated =>
            LET p == parse_chat(WithoutNotices(raw_text))
            IN  raised = p.raised /\ df = p.df)

\* What the step does: with a record before it, the line is joined to the
\* last record as any continuation is.
C23_NoticeIsJoined ==
    [][(AtLine /\ StampedNotice(lines[cur]) /\ data # <<>>)
          => data' = JoinToLast(data, lines[cur])]_vars

\* A participant's only message is followed by a line of a missed call and
\* the call ends with the error of the content filter.
C23_RecordLost ==
    /\ raw_text = OldLine \o <<"\n">> \o MissedCallLine
    /\ pc = "raised"
    /\ raised = NoMessagesAfterFiltering

(***************************************************************************)
(* C21                                                                     *)
(***************************************************************************)
\* The endpoints that read.
ReadOps ==
    {"summary", "activity", "content", "timeline", "visualizations",
     "search", "sessions"}

\* The day names of the rows of the stored session, one for each row.
DayNames(session_id) ==
    LET rows == Item(chat_sessions, session_id).dataframe.rows
    IN  [j \in 1..Len(rows) |-> day_name(rows[j].DateTime)]

\* The step of a read endpoint leaves the store, frames included, as it
\* was.
C21_ReadsLeaveStore ==
    [][response'.op \in ReadOps => chat_sessions' = chat_sessions]_vars

\* GET /activity answers with the counts of the days that occur among the
\* rows of the session, as it does for a session just uploaded, whatever
\* was requested before.
C21_ActivityAsUploaded ==
    [][(response'.op = "activity" /\ response'.status_code = 200)
          => response'.content.overall.daily
                = value_counts(DayNames(response'.arg))]_vars

\* C21: the endpoints summary, activity, content, timeline, visualizations,
\* search and sessions leave the session store and the frame of every
\* stored session as they were, and the answer of a read endpoint for a
\* session is the one it gives for the session as uploaded, whichever read
\* endpoints were called before.
C21_ReadsAreFrameFree ==
    /\ C21_ReadsLeaveStore
    /\ C21_ActivityAsUploaded

\* What the read endpoints do leave alone: the ids, the file names, the
\* texts and the rows of the sessions, and their order.
C21_ReadsKeepRows ==
    [][response'.op \in ReadOps =>
          /\ Len(chat_sessions') = Len(chat_sessions)
          /\ \A k \in 1..Len(chat_sessions) :
                /\ chat_sessions'[k].session_id = chat_sessions[k].session_id
                /\ chat_sessions'[k].filename = chat_sessions[k].filename
                /\ chat_sessions'[k].raw_text = chat_sessions[k].raw_text
                /\ chat_sessions'[k].dataframe.rows = chat_sessions[k].dataframe.rows
                /\ chat_sessions'[k].dataframe.columns
                      = chat_sessions[k].dataframe.columns]_vars

\* GET /activity has answered for a session of one message, of a Monday,
\* with a count for each of the seven days.
C21_SevenDays ==
    /\ response.op = "activity"
    /\ response.status_code = 200
    /\ Len(Item(chat_sessions, response.arg).dataframe.rows) = 1
    /\ DOMAIN response.content.overall.daily
          = {weekday_order[j] : j \in 1..7}
    /\ response.content.overall.daily["Monday"] = 1
    /\ response.content.overall.daily["Tuesday"] = 0

=============================================================================
